---- MODULE Spec2Model ----
(***************************************************************************)
(* Model of the query-generation core of SQL-Exchange:                     *)
(*   src/query_generation/utils.py   classifier, JSON repair, validators   *)
(*   src/query_generation/stats.py   the Stats ledger                      *)
(*   src/query_generation/core.py    run(): the pipeline / source-db /     *)
(*                                   prompt / attempt loops                *)
(*   src/query_generation/model.py   the finish reasons generate() emits   *)
(*                                                                         *)
(* Texts are sequences of lexical tokens: one token is one structural      *)
(* character, one whitespace character, or one whole literal.  Offsets are *)
(* 0-based token offsets, as Python's are 0-based character offsets.       *)
(***************************************************************************)
EXTENDS Integers, Sequences, FiniteSets, TLC

(***************************************************************************)
(* Bounds of the model.                                                    *)
(***************************************************************************)
\* tokens of the texts the repair engine is applied to exhaustively
MaxTextLen == 4
\* pipelines of SETTINGS["data"], question files of a pipeline
NumPipelines == 2
NumFiles == 2
\* questions of one question file, and of all the files the run processes
MaxQuestions == 2
MaxTotalQuestions == 3
\* max_question_length_per_prompt, largest max_retry_per_prompt and max_fail_limit
MaxQuestionsPerPrompt == 1
MaxRetry == 2
MaxFailLimit == 2
\* the largest number a Stats ledger on its own holds
MaxStatValue == 2
\* the largest max_question_length_per_prompt where the batches are looked at
MaxBatchSize == 2

(***************************************************************************)
(* Python values.  Every value is a record [kind, val]; a dict's val is a  *)
(* function from its keys, a list's val is a sequence.                     *)
(***************************************************************************)
None == [kind |-> "None", val |-> <<>>]
PyInt(n) == [kind |-> "int", val |-> n]
PyStr(s) == [kind |-> "str", val |-> s]
PyBool(b) == [kind |-> "bool", val |-> b]
PyList(items) == [kind |-> "list", val |-> items]
PyDict(f) == [kind |-> "dict", val |-> f]

\* isinstance(value, (int, float)); bool is a subclass of int in Python
IsNumber(v) == v.kind \in {"int", "bool"}
\* the number a numeric value stands for (True is 1, False is 0)
NumVal(v) == IF v.kind = "bool" THEN (IF v.val THEN 1 ELSE 0) ELSE v.val

\* the element of a one-element set: The({e(x) : x \in {v}}) is e(v), with v
\* evaluated once
The(S) == CHOOSE x \in S : TRUE

\* s[i] for 0 <= i < len(s), and s[i] for a negative i (counted from the end)
PyIndex(s, i) == IF i < 0 THEN s[Len(s) + i + 1] ELSE s[i + 1]

\* s[i:i+1]: the one-character slice, "" past the end
CharAt(s, i) == IF i >= 0 /\ i < Len(s) THEN s[i + 1] ELSE ""

\* s[a:b] with Python's clamping of negative and out-of-range bounds
PySlice(s, a, b) ==
    LET n  == Len(s)
        a0 == IF a < 0 THEN (IF n + a < 0 THEN 0 ELSE n + a) ELSE (IF a > n THEN n ELSE a)
        b0 == IF b < 0 THEN (IF n + b < 0 THEN 0 ELSE n + b) ELSE (IF b > n THEN n ELSE b)
    IN  IF a0 >= b0 THEN <<>> ELSE SubSeq(s, a0 + 1, b0)

\* s.find(c): the lowest offset of c in s, -1 when absent
PyFind(s, c) ==
    IF \E k \in 1..Len(s) : s[k] = c
    THEN (CHOOSE k \in 1..Len(s) : s[k] = c /\ \A j \in 1..(k - 1) : s[j] # c) - 1
    ELSE -1

\* s.rfind(c): the highest offset of c in s, -1 when absent
PyRFind(s, c) ==
    IF \E k \in 1..Len(s) : s[k] = c
    THEN (CHOOSE k \in 1..Len(s) : s[k] = c /\ \A j \in (k + 1)..Len(s) : s[j] # c) - 1
    ELSE -1

(***************************************************************************)
(* Tokens.                                                                 *)
(***************************************************************************)
Whitespace == {" ", "\n"}
\* well-formed string literals ("a" stands for the literal with content a)
StringLiterals == {"a", "b", "source_db_id", "target_db_id", "db1", "db2", "tdb"}
\* a string literal holding an invalid escape, such as "\q"
BadEscape == "\\q"

(***************************************************************************)
(* json.loads of the standard library, on token texts.  A result is        *)
(*   [ok |-> TRUE,  val |-> value, end |-> offset after the value]  or      *)
(*   [ok |-> FALSE, msg |-> the JSONDecodeError message, pos |-> offset].  *)
(***************************************************************************)
MsgComma == "Expecting ',' delimiter"
MsgEscape == "Invalid \\escape"
MsgValue == "Expecting value"
MsgExtra == "Extra data"
MsgName == "Expecting property name enclosed in double quotes"
MsgColon == "Expecting ':' delimiter"

DecodeOk(v, e) == [ok |-> TRUE, val |-> v, end |-> e]
DecodeError(m, p) == [ok |-> FALSE, msg |-> m, pos |-> p]

RECURSIVE SkipWs(_, _)
SkipWs(s, i) == IF CharAt(s, i) \in Whitespace THEN SkipWs(s, i + 1) ELSE i

RECURSIVE ScanOnce(_, _), ArrayItems(_, _, _), ObjectPairs(_, _, _)

\* one value starting at offset idx
ScanOnce(s, idx) ==
    LET c == CharAt(s, idx)
    IN  IF c \in StringLiterals THEN DecodeOk(PyStr(c), idx + 1)
        ELSE IF c = BadEscape THEN DecodeError(MsgEscape, idx)
        ELSE IF c = "[" THEN
            LET e == SkipWs(s, idx + 1)
            IN  IF CharAt(s, e) = "]" THEN DecodeOk(PyList(<<>>), e + 1)
                ELSE ArrayItems(s, e, <<>>)
        ELSE IF c = "{" THEN
            LET e == SkipWs(s, idx + 1)
            IN  IF CharAt(s, e) = "}" THEN DecodeOk(PyDict(<<>>), e + 1)
                ELSE IF CharAt(s, e) \in StringLiterals \cup {BadEscape}
                     THEN ObjectPairs(s, e, <<>>)
                     ELSE DecodeError(MsgName, e)
        ELSE DecodeError(MsgValue, idx)

\* the items of an array, the next one expected at offset end
ArrayItems(s, end, values) ==
    The({IF ~r.ok THEN r
         ELSE LET e == SkipWs(s, r.end)
                  c == CharAt(s, e)
              IN  IF c = "]" THEN DecodeOk(PyList(Append(values, r.val)), e + 1)
                  ELSE IF c # "," THEN DecodeError(MsgComma, e)
                  ELSE ArrayItems(s, SkipWs(s, e + 1), Append(values, r.val))
         : r \in {ScanOnce(s, end)}})

\* the members of an object, the next key (a string literal) at offset end
ObjectPairs(s, end, pairs) ==
    IF CharAt(s, end) = BadEscape THEN DecodeError(MsgEscape, end)
    ELSE
    LET key == CharAt(s, end)
        e1  == SkipWs(s, end + 1)
    IN  IF CharAt(s, e1) # ":" THEN DecodeError(MsgColon, e1)
        ELSE The({IF ~r.ok THEN r
                  ELSE LET e2  == SkipWs(s, r.end)
                           c   == CharAt(s, e2)
                           new == (key :> r.val) @@ pairs
                       IN  IF c = "}" THEN DecodeOk(PyDict(new), e2 + 1)
                           ELSE IF c # "," THEN DecodeError(MsgComma, e2)
                           ELSE LET e3 == SkipWs(s, e2 + 1)
                                IN  IF CharAt(s, e3) \in StringLiterals \cup {BadEscape}
                                    THEN ObjectPairs(s, e3, new)
                                    ELSE DecodeError(MsgName, e3)
                  : r \in {ScanOnce(s, SkipWs(s, e1 + 1))}})

\* json.loads(s)
JsonLoads(s) ==
    The({IF ~r.ok THEN r
         ELSE LET e == SkipWs(s, r.end)
              IN  IF e # Len(s) THEN DecodeError(MsgExtra, e) ELSE r
         : r \in {ScanOnce(s, SkipWs(s, 0))}})

(***************************************************************************)
(* utils.py: the JSON repair engine.                                       *)
(***************************************************************************)
\* "Expecting ',' delimiter" in str(e)
IsCommaError(r) == r.msg = MsgComma
\* "Invalid" in str(e) and "escape" in str(e)
\* faulty variants of IsEscapeError: a test on the wrong letter case, and a test
\* that takes every error for an escape error
IsEscapeErrorLower(r) == r.msg = "invalid \\escape"
IsEscapeErrorAny(r) == ~r.ok
IsEscapeError(r) == r.msg = MsgEscape

\* faulty variant of InsertAt: the comma overwrites the character at error_pos
ReplaceAt(content, error_pos) ==
    PySlice(content, 0, error_pos) \o <<",">> \o PySlice(content, error_pos + 1, Len(content))

\* line 134: content[:error_pos] + ',' + content[error_pos:]
InsertAt(content, error_pos) ==
    PySlice(content, 0, error_pos) \o <<",">> \o PySlice(content, error_pos, Len(content))

\* faulty variant of ErrorPos: a newline at offset 0 has no character before it
ErrorPosNoWrap(content, r) ==
    LET last_newline == PyRFind(PySlice(content, 0, r.pos), "\n")
    IN  IF last_newline > 0 /\ PyIndex(content, last_newline - 1) # ","
        THEN last_newline ELSE r.pos

\* lines 127-131: where the pass puts the comma, given the decoder's error r
ErrorPos(content, r) ==
    LET last_newline == PyRFind(PySlice(content, 0, r.pos), "\n")
    IN  IF last_newline # -1 /\ PyIndex(content, last_newline - 1) # ","
        THEN last_newline ELSE r.pos

RECURSIVE fix_missing_comma(_)
fix_missing_comma(content) ==
    The({IF r.ok THEN [fixed |-> TRUE, json_obj |-> r.val, error_type |-> None]
         ELSE IF IsCommaError(r) THEN
             fix_missing_comma(InsertAt(content, ErrorPos(content, r)))
         ELSE IF IsEscapeError(r)
              THEN [fixed |-> FALSE, json_obj |-> None, error_type |-> PyStr("invalid_escape")]
              ELSE [fixed |-> FALSE, json_obj |-> None, error_type |-> PyStr("json_decode")]
         : r \in {JsonLoads(content)}})

\* the values of `content` in the successive calls of fix_missing_comma (line 137)
\* faulty variant of RepairPasses: the engine stops after its first insertion
RepairPassesOnce(content) ==
    The({IF ~r.ok /\ IsCommaError(r)
         THEN <<content, InsertAt(content, ErrorPos(content, r))>>
         ELSE <<content>>
         : r \in {JsonLoads(content)}})

RECURSIVE RepairPasses(_)
RepairPasses(content) ==
    The({IF ~r.ok /\ IsCommaError(r)
         THEN <<content>> \o RepairPasses(InsertAt(content, ErrorPos(content, r)))
         ELSE <<content>>
         : r \in {JsonLoads(content)}})

\* the state of the repair engine before it is called
NotRun == [op |-> "none"]

\* faulty variant of Returned: every value is reported as repaired
ReturnedAsFixed(json, fixed, errors) ==
    [raised |-> FALSE, exc |-> "", json |-> json, fixed |-> PyBool(TRUE), errors |-> errors]

\* the value validate_json_response hands back, or the exception it lets escape
Returned(json, fixed, errors) ==
    [raised |-> FALSE, exc |-> "", json |-> json, fixed |-> fixed, errors |-> errors]
Raised(exc, errors) ==
    [raised |-> TRUE, exc |-> exc, json |-> None, fixed |-> None, errors |-> errors]

validate_json_response(errors, response_text) ==
    The({IF r.ok THEN Returned(r.val, PyBool(FALSE), errors)
         ELSE IF IsCommaError(r) THEN
             The({IF f.fixed
                  THEN \* line 69 parses the unrepaired response_text once more
                       IF ~JsonLoads(response_text).ok THEN Raised("JSONDecodeError", errors)
                       \* line 70 hands json.loads the object fix_missing_comma built
                       ELSE Raised("TypeError", errors)
                  ELSE Returned(None, None, [errors EXCEPT ![f.error_type.val] = TRUE])
                  : f \in {fix_missing_comma(response_text)}})
         ELSE IF IsEscapeError(r)
              THEN Returned(None, None, [errors EXCEPT !["invalid_escape"] = TRUE])
              ELSE Returned(None, None, [errors EXCEPT !["json_decode"] = TRUE])
         : r \in {JsonLoads(response_text)}})

(***************************************************************************)
(* utils.py: the response classifier.                                      *)
(***************************************************************************)
\* str.upper() on the finish reasons that occur
Upper(s) ==
    CASE s = "max_token" -> "MAX_TOKEN"
      [] s = "max_tokens" -> "MAX_TOKENS"
      [] s = "recitation" -> "RECITATION"
      [] s = "stop" -> "STOP"
      [] OTHER -> s

\* faulty variants of check_special_errors: one that flags the error and still
\* reports a pass, and one that tests every condition instead of the first that holds
check_special_errors_passing(errors, text, finish_reason) ==
    [passed |-> TRUE,
     errors |-> IF Len(text) = 0 THEN [errors EXCEPT !["empty_output"] = TRUE]
                ELSE IF Upper(finish_reason) = "RECITATION"
                THEN [errors EXCEPT !["recitation"] = TRUE]
                ELSE errors]
check_special_errors_all(errors, text, finish_reason) ==
    [passed |-> Len(text) # 0 /\ Upper(finish_reason) \notin {"MAX_TOKEN", "RECITATION"},
     errors |-> [errors EXCEPT !["empty_output"] = Len(text) = 0,
                               !["max_token"] = Upper(finish_reason) = "MAX_TOKEN",
                               !["recitation"] = Upper(finish_reason) = "RECITATION"]]

check_special_errors(errors, text, finish_reason) ==
    IF Len(text) = 0
    THEN [passed |-> FALSE, errors |-> [errors EXCEPT !["empty_output"] = TRUE]]
    ELSE IF Upper(finish_reason) = "MAX_TOKEN"
    THEN [passed |-> FALSE, errors |-> [errors EXCEPT !["max_token"] = TRUE]]
    ELSE IF Upper(finish_reason) = "RECITATION"
    THEN [passed |-> FALSE, errors |-> [errors EXCEPT !["recitation"] = TRUE]]
    ELSE [passed |-> TRUE, errors |-> errors]

(***************************************************************************)
(* utils.py: the structural validators.  A result is the returned value,   *)
(* or raised = TRUE when the function lets an exception escape.            *)
(***************************************************************************)
RECURSIVE check_fields_from(_, _, _)
check_fields_from(response, fields, n) ==
    IF n > Len(response.val) THEN [raised |-> FALSE, value |-> TRUE]
    ELSE LET question == response.val[n]
         IN  \* question.keys() of a value that is no dict: AttributeError
             IF question.kind # "dict" THEN [raised |-> TRUE, value |-> FALSE]
             ELSE IF Cardinality(DOMAIN question.val) # Len(fields)
                  THEN [raised |-> FALSE, value |-> FALSE]
             ELSE IF \E k \in 1..Len(fields) : fields[k] \notin DOMAIN question.val
                  THEN [raised |-> FALSE, value |-> FALSE]
             ELSE check_fields_from(response, fields, n + 1)

\* faulty variant of check_fields: a record passes when it has the fields, whatever
\* else it has
check_fields_subset(response, fields) ==
    [raised |-> \E n \in 1..Len(response.val) : response.val[n].kind # "dict",
     value  |-> \A n \in 1..Len(response.val) :
                   /\ response.val[n].kind = "dict"
                   /\ \A k \in 1..Len(fields) : fields[k] \in DOMAIN response.val[n].val]

check_fields(response, fields) == check_fields_from(response, fields, 1)

RECURSIVE check_db_id_from(_, _, _, _, _)
check_db_id_from(db_id, json_obj, target_db_id, n, failed) ==
    IF n > Len(json_obj.val) THEN [raised |-> FALSE, value |-> failed]
    ELSE LET response == json_obj.val[n]
         IN  \* response['source_db_id']: TypeError on a non-dict, KeyError on a missing key
             IF response.kind # "dict" \/ "source_db_id" \notin DOMAIN response.val
             THEN [raised |-> TRUE, value |-> failed]
             ELSE LET f1 == IF response.val["source_db_id"] # PyStr(db_id)
                            THEN failed + 1 ELSE failed
                  IN  IF target_db_id = "" THEN check_db_id_from(db_id, json_obj, target_db_id, n + 1, f1)
                      ELSE IF "target_db_id" \notin DOMAIN response.val
                           THEN [raised |-> TRUE, value |-> f1]
                      ELSE check_db_id_from(db_id, json_obj, target_db_id, n + 1,
                               IF response.val["target_db_id"] # PyStr(target_db_id)
                               THEN f1 + 1 ELSE f1)

\* faulty variant of check_db_id: the target identifier is never compared
check_db_id_source_only(db_id, json_obj, target_db_id) ==
    [raised |-> check_db_id_from(db_id, json_obj, target_db_id, 1, 0).raised,
     value  |-> check_db_id_from(db_id, json_obj, "", 1, 0).value]

check_db_id(db_id, json_obj, target_db_id) ==
    check_db_id_from(db_id, json_obj, target_db_id, 1, 0)

(***************************************************************************)
(* stats.py: the Stats ledger.                                             *)
(***************************************************************************)
StatKeys == {"time_taken", "real_time", "input_token", "output_token", "request",
             "response", "success_response", "error_response", "corrected_response",
             "unexpected_error"}

\* Stats.__init__(extra_stats)
Stats(extra_stats) ==
    LET default == extra_stats @@ [k \in StatKeys |-> PyInt(0)]
    IN  [default |-> default, full_stats |-> default,
         unexpected_errors |-> <<>>, skipped_db_prompts |-> <<>>]

get_stats(self) == self.full_stats

\* faulty variant of reset_stats: the ledger keeps what it gathered
reset_stats_keeping(self) == self

\* faulty variant of reset_stats: the counters are restored, the two lists are kept
reset_stats_counters_only(self) == [self EXCEPT !.full_stats = self.default]

\* faulty variant of reset_stats: the skipped prompts are kept
reset_stats_keeping_skipped(self) ==
    [self EXCEPT !.full_stats = self.default, !.unexpected_errors = <<>>]

reset_stats(self) ==
    [self EXCEPT !.full_stats = self.default,
                 !.unexpected_errors = <<>>,
                 !.skipped_db_prompts = <<>>]

\* faulty variant of add_skipped_db_prompt: the record holds the error template
add_skipped_db_prompt_template(self, system_prompt, prompt, db_id, questions, errors) ==
    [self EXCEPT !.skipped_db_prompts = Append(@,
        [system_prompt |-> system_prompt, prompt |-> prompt, db_id |-> db_id,
         questions |-> questions, errors |-> [k \in DOMAIN errors |-> FALSE]])]

\* faulty variant of add_skipped_db_prompt: the record takes the place of the list
add_skipped_db_prompt_only(self, system_prompt, prompt, db_id, questions, errors) ==
    [self EXCEPT !.skipped_db_prompts =
        <<[system_prompt |-> system_prompt, prompt |-> prompt, db_id |-> db_id,
           questions |-> questions, errors |-> errors]>>]

add_skipped_db_prompt(self, system_prompt, prompt, db_id, questions, errors) ==
    [self EXCEPT !.skipped_db_prompts = Append(@,
        [system_prompt |-> system_prompt, prompt |-> prompt, db_id |-> db_id,
         questions |-> questions, errors |-> errors])]

\* faulty variant of add_unexpected_error: the failure also counts as a response
add_unexpected_error_counted(self, error) ==
    [self EXCEPT !.unexpected_errors = Append(@, error),
                 !.full_stats["unexpected_error"] = PyInt(@.val + 1),
                 !.full_stats["error_response"] = PyInt(@.val + 1)]

\* faulty variant of add_unexpected_error: the message is kept, the counter is not moved
add_unexpected_error_listed_only(self, error) ==
    [self EXCEPT !.unexpected_errors = Append(@, error)]

add_unexpected_error(self, error) ==
    [self EXCEPT !.unexpected_errors = Append(@, error),
                 !.full_stats["unexpected_error"] = PyInt(@.val + 1)]

\* full_stats[key] += value on a ledger value that is no number: TypeError
add_stats_raises(self, stats) ==
    \E key \in DOMAIN stats \cap DOMAIN self.full_stats :
        IsNumber(stats[key]) /\ ~IsNumber(self.full_stats[key])

add_stats(self, stats) ==
    [self EXCEPT !.full_stats =
        [key \in DOMAIN self.full_stats |->
            IF key \in DOMAIN stats /\ IsNumber(stats[key]) /\ IsNumber(self.full_stats[key])
            THEN PyInt(NumVal(self.full_stats[key]) + NumVal(stats[key]))
            ELSE self.full_stats[key]]]

(***************************************************************************)
(* core.py: constants and configuration.                                   *)
(***************************************************************************)
ErrorKinds == {"empty_output", "fields_mismatch", "db_id_matching", "recitation",
               "max_token", "invalid_escape", "json_decode", "unexpected"}
DEFAULT_ERRORS == [k \in ErrorKinds |-> FALSE]
RETRY_TIMER == 1
MAX_TOKENS_FAIL_REMINDER == 9

RangeOf(seq) == {seq[k] : k \in 1..Len(seq)}

\* sum(errors.values())
ErrorCount(errors) == Cardinality({k \in DOMAIN errors : errors[k]})

\* faulty variant of InRange: the loop body runs once more
InRangeInclusive(k, n) == k <= n

\* for k in range(n): whether the loop body runs for k
InRange(k, n) == k < n

\* a local name of run() that no assignment has reached yet
Unbound == [kind |-> "unbound", val |-> <<>>]
UNBOUND_DB == "<unbound>"

\* the source db of the k-th question file of a pipeline
DbIds == <<"db1", "db2", "db3">>
TargetDbId == "tdb"
FieldsToCheck == <<"source_db_id", "target_db_id">>

\* SETTINGS of mapping_settings.json: the values run() reads
SettingsChoices ==
    [max_retry_per_prompt : 1..MaxRetry,
     max_fail_limit : 1..MaxFailLimit,
     max_question_length_per_prompt : {MaxQuestionsPerPrompt},
     fields_checking : {TRUE},
     db_id_matching : {TRUE},
     target_db_id : {TargetDbId},
     source_db_ids : {<<>>, <<"db1">>}]

(***************************************************************************)
(* model.py: what generate() hands back.                                   *)
(***************************************************************************)
\* the finish reasons __generate_openai and __generate_google emit
FinishReasons == {"", "MAX_TOKENS", "RECITATION"}

Rec(src, tgt) == <<"{", "source_db_id", ":", src, ",", "target_db_id", ":", tgt, "}">>
\* one record wrapped in prose, as the service answers
TextGood(db) == <<"x", "[">> \o Rec(db, TargetDbId) \o <<"]", "x">>
\* two records on two lines with the separating comma left out
TextMissingComma == <<"[">> \o Rec("db1", TargetDbId) \o <<"\n">> \o Rec("db1", TargetDbId) \o <<"]">>
\* a missing comma followed by a truncated array
TextMissingCommaOpen == <<"[", "a", " ", "a">>
\* two strings with the separating comma left out
TextMissingCommaShort == <<"[", "a", " ", "b", "]">>
TextBadEscape == <<"[", BadEscape, "]">>
TextNoJson == <<"x", "x">>
TextFieldsMismatch == <<"[", "{", "source_db_id", ":", "db1", "}", "]">>
TextNotRecords == <<"[", "a", "]">>
\* a record with a key more than the required ones
TextExtraField ==
    <<"[", "{", "source_db_id", ":", "db1", ",", "target_db_id", ":", TargetDbId, ",",
      "a", ":", "b", "}", "]">>
\* a record with as many keys as required, one of them another key
TextOtherField == <<"[", "{", "source_db_id", ":", "db1", ",", "a", ":", "b", "}", "]">>
\* a good record followed by one with a key missing
TextSecondMismatch ==
    <<"[">> \o Rec("db1", TargetDbId) \o <<",", "{", "source_db_id", ":", "db1", "}", "]">>
\* one record, both of its identifiers not the expected ones
TextBothWrong == <<"[">> \o Rec("db2", "db1") \o <<"]">>
\* two records, each with another source identifier
TextTwoWrong == <<"[">> \o Rec("db2", TargetDbId) \o <<",">> \o Rec("db2", TargetDbId) \o <<"]">>

ResponseTexts ==
    {<<>>, TextGood("db1"), TextGood("db2"), TextMissingComma, TextMissingCommaOpen,
     TextMissingCommaShort,
     TextBadEscape, TextNoJson, TextFieldsMismatch, TextNotRecords,
     TextExtraField, TextOtherField, TextSecondMismatch, TextBothWrong, TextTwoWrong}

GenerateResult(text, finish_reason, response_token_count) ==
    [response |-> text, prompt_token_count |-> PyInt(1),
     response_token_count |-> response_token_count,
     time_taken |-> PyInt(1), finish_reason |-> finish_reason]

\* the results the run is explored with
GenerateResults ==
    {GenerateResult(<<>>, "", None),
     GenerateResult(TextGood("db1"), "", PyInt(1)),
     GenerateResult(TextGood("db2"), "", PyInt(1)),
     GenerateResult(TextMissingComma, "", PyInt(1))}

\* generate() returns a result or raises
GenerateOutcomes ==
    {[raised |-> FALSE, result |-> g, error |-> ""] : g \in GenerateResults}
    \cup {[raised |-> TRUE, result |-> None, error |-> "transport failure"]}

(***************************************************************************)
(* State.                                                                  *)
(***************************************************************************)
VARIABLES
    SETTINGS,                \* the configuration, read once
    pc,                      \* where run() is
    pipeline_num,            \* pipelines started so far
    source_db_index,         \* question files of the pipeline started so far
    i,                       \* offset of the prompt batch in question_data
    attempt,                 \* attempts of the prompt batch made so far
    overall_stats, pipeline_stats, current_stats,
    max_fail_counter, max_tokens_fail_counter,
    errors, response_dict, current_db, question_data, current_questions,
    base_questions_prompt, db_response,
    sink,                    \* the report files written by write_stats
    slept,                   \* whether the last attempt ended in sleep(RETRY_TIMER)
    ran,                     \* what the last attempt called of lines 524-532
    reminders,               \* max-token reminders printed so far
    exception,               \* the exception that ended the run, "" if none
    \* history of the run, read by the properties only
    batch_state, generation_calls, batch_responses, terminal_responses,
    source_db_responses,
    questions_loaded,        \* questions handed to the prompt loop so far
    batch_log,               \* the prompt batches of the source db so far
    \* the repair engine on its own
    response_text, repair_result,
    \* a Stats ledger on its own
    ledger, stats_result

run_vars == <<SETTINGS, pc, pipeline_num, source_db_index, i, attempt,
              overall_stats, pipeline_stats, current_stats,
              max_fail_counter, max_tokens_fail_counter,
              errors, response_dict, current_db, question_data, current_questions,
              base_questions_prompt, db_response, sink, slept, ran, reminders, exception,
              batch_state, generation_calls, batch_responses, terminal_responses,
              source_db_responses, questions_loaded, batch_log>>
repair_vars == <<response_text, repair_result>>
stats_vars == <<ledger, stats_result>>
vars == <<run_vars, repair_vars, stats_vars>>

(***************************************************************************)
(* core.py run(): one pass of the attempt loop body (lines 472-564), as    *)
(* the values it leaves behind.  how is "break" (response accepted),       *)
(* "next" (loop goes on), "exit" (max_fail_exit) or "raise" (an exception  *)
(* nothing catches).                                                       *)
(***************************************************************************)
\* faulty variant of max_fail_exit: the error is printed and run() goes on
max_fail_exit_returning(error) == [how |-> "next", exc |-> "", sink |-> sink]

\* max_fail_exit(error): prints the error and calls exit(1); no file is written
max_fail_exit(error) == [how |-> "exit", exc |-> error, sink |-> sink]

\* the calls an attempt can make at lines 524-532 and what each did:
\* check_special_errors, validate_json_response, check_fields, check_db_id
\* (fails is the number check_db_id returned, 0 if it returned nothing)
RanNothing == [classifier |-> "none", repair |-> "none", fields |-> "none",
               db_id |-> "none", fails |-> 0]

\* faulty variant of Validates: the held response is looked at whenever there is one
ValidatesWhenHeld(e, held) == ~e["unexpected"] \/ held \notin {None, Unbound}

\* line 524: whether the attempt goes on to check_special_errors, given its error
\* set and the response it holds
Validates(e, held) == ~e["unexpected"]

\* faulty variant of RunsDbIdCheck: the identity check does not look at fields_mismatch
RunsDbIdCheckAlways(e) == SETTINGS.db_id_matching

\* line 532: whether check_db_id is called, given the error set after check_fields
RunsDbIdCheck(e) == ~e["fields_mismatch"] /\ SETTINGS.db_id_matching

\* faulty variant of LimitReached: the run goes on until the limit is passed
LimitPassed(fails) == fails > SETTINGS.max_fail_limit

\* line 483: max_fail_counter >= MAX_FAIL_LIMIT
LimitReached(fails) == fails >= SETTINGS.max_fail_limit

\* faulty variant of FreshErrors: the attempt goes on with the dict of the one before
CarriedErrors(previous) == IF previous = Unbound THEN DEFAULT_ERRORS ELSE previous

\* line 472: errors = DEFAULT_ERRORS.copy(), whatever errors was bound to
FreshErrors(previous) == DEFAULT_ERRORS

\* faulty variant of SleepAfter: every failed attempt ends in a sleep
SleepAfterAnyError(e) == ErrorCount(e) # 0

\* lines 563-564: whether the attempt ends in sleep(RETRY_TIMER)
SleepAfter(e) == e["unexpected"]

\* lines 543-564: the response was not accepted
\* faulty variant of Rest: an attempt that raised counts as an error response too
RestCountingRaised(b) ==
    LET stats3 == add_stats(b.stats, "error_response" :> PyInt(1))
        count  == IF b.errors["max_token"] THEN max_tokens_fail_counter + 1
                  ELSE max_tokens_fail_counter
        remind == b.errors["max_token"] /\ count >= MAX_TOKENS_FAIL_REMINDER
    IN  [b EXCEPT !.stats = stats3,
                  !.max_tokens_fail_counter = IF remind THEN 0 ELSE count,
                  !.reminders = IF remind THEN @ + 1 ELSE @,
                  !.slept = SleepAfter(b.errors)]

Rest(b) ==
    LET stats3 == IF ~b.errors["unexpected"]
                  THEN add_stats(b.stats, "error_response" :> PyInt(1)) ELSE b.stats
        count  == IF b.errors["max_token"] THEN max_tokens_fail_counter + 1
                  ELSE max_tokens_fail_counter
        remind == b.errors["max_token"] /\ count >= MAX_TOKENS_FAIL_REMINDER
    IN  [b EXCEPT !.stats = stats3,
                  !.max_tokens_fail_counter = IF remind THEN 0 ELSE count,
                  !.reminders = IF remind THEN @ + 1 ELSE @,
                  !.slept = SleepAfter(b.errors)]

\* lines 526-541: v is what validate_json_response did with the bracketed text
Checked(b2, v) ==
    IF v.raised THEN [b2 EXCEPT !.how = "raise", !.exc = v.exc, !.ran.repair = "raised"]
    ELSE
    LET rd1 == b2.response_dict
        rd2 == [response |-> rd1.response,
                prompt_token_count |-> rd1.prompt_token_count,
                response_token_count |-> rd1.response_token_count,
                time_taken |-> rd1.time_taken,
                finish_reason |-> rd1.finish_reason, json |-> v.json]
        b3  == [b2 EXCEPT !.errors = v.errors, !.response_dict = rd2,
                          !.ran.repair = "returned"]
    IN  IF v.json = None THEN Rest(b3)
        ELSE
        LET cf == check_fields(v.json, FieldsToCheck)
        IN  IF SETTINGS.fields_checking /\ cf.raised
            THEN [b3 EXCEPT !.how = "raise", !.exc = "AttributeError",
                            !.ran.fields = "raised"]
            ELSE
            LET e5 == IF SETTINGS.fields_checking /\ cf.value = FALSE
                      THEN [b3.errors EXCEPT !["fields_mismatch"] = TRUE]
                      ELSE b3.errors
                run_db == RunsDbIdCheck(e5)
                cd == check_db_id(current_db, v.json, SETTINGS.target_db_id)
                b5 == [b3 EXCEPT !.errors = e5,
                                 !.ran.fields = IF ~SETTINGS.fields_checking THEN "none"
                                                ELSE IF cf.value THEN "passed" ELSE "failed"]
            IN  IF run_db /\ cd.raised
                THEN [b5 EXCEPT !.how = "raise", !.exc = "KeyError", !.ran.db_id = "raised"]
                ELSE
                LET e6 == IF run_db /\ cd.value > 0
                          THEN [e5 EXCEPT !["db_id_matching"] = TRUE] ELSE e5
                    b6 == [b5 EXCEPT !.errors = e6,
                                     !.ran.db_id = IF run_db THEN "returned" ELSE "none",
                                     !.ran.fails = IF run_db THEN cd.value ELSE 0]
                IN  IF e6["fields_mismatch"] = FALSE /\ e6["db_id_matching"] = FALSE
                    THEN [b6 EXCEPT !.how = "break",
                            !.stats = add_stats(b6.stats,
                                IF v.fixed = PyBool(TRUE)
                                THEN "corrected_response" :> PyInt(1)
                                ELSE "success_response" :> PyInt(1))]
                    ELSE Rest(b6)

\* faulty variant of FailCount: an attempt that did not raise clears the count
FailCountConsecutive(gen, counter) == IF gen.raised THEN counter + 1 ELSE 0

\* line 482: max_fail_counter += 1, in the except branch only
FailCount(gen, counter) == IF gen.raised THEN counter + 1 ELSE counter

AttemptBody(gen) ==
    LET errors0 == FreshErrors(errors)
        stats0  == add_stats(current_stats, "request" :> PyInt(1))
        \* lines 474-484
        errors1 == IF gen.raised THEN [errors0 EXCEPT !["unexpected"] = TRUE] ELSE errors0
        stats1  == IF gen.raised THEN add_unexpected_error(stats0, gen.error) ELSE stats0
        fails   == FailCount(gen, max_fail_counter)
        rd1     == IF gen.raised THEN response_dict ELSE gen.result
        \* lines 487-516
        stats2  == IF errors1["unexpected"] THEN stats1
                   ELSE add_stats(stats1, [time_taken |-> rd1.time_taken,
                                           input_token |-> rd1.prompt_token_count,
                                           output_token |-> rd1.response_token_count])
        base    == [how |-> "next", exc |-> "", errors |-> errors1, stats |-> stats2,
                    response_dict |-> rd1, max_fail_counter |-> fails,
                    max_tokens_fail_counter |-> max_tokens_fail_counter,
                    reminders |-> reminders, slept |-> FALSE, sink |-> sink,
                    ran |-> RanNothing]
    IN  IF gen.raised /\ LimitReached(fails)
        THEN LET x == max_fail_exit(gen.error)
             IN  [base EXCEPT !.how = x.how, !.exc = x.exc, !.sink = x.sink]
        ELSE IF ~Validates(errors1, rd1) THEN Rest(base)
        ELSE
        LET special == check_special_errors(errors1, rd1.response, rd1.finish_reason)
            b1 == [base EXCEPT !.errors = special.errors,
                               !.ran.classifier = IF special.passed THEN "passed" ELSE "failed"]
        IN  IF ~special.passed THEN Rest(b1)
            ELSE
            LET json_bracket == PySlice(rd1.response, PyFind(rd1.response, "["),
                                        PyRFind(rd1.response, "]") + 1)
            IN  The({Checked(b1, v) : v \in {validate_json_response(b1.errors, json_bracket)}})

(***************************************************************************)
(* core.py: the files write_stats and write_response leave in the output   *)
(* directory.  The model keeps which files exist, not what they hold; each *)
(* pipeline writes under its own directory (its number), the run under 0.  *)
(***************************************************************************)
\* write_stats(level, stats, write_dir, current_db) on the files so far
write_stats(files, level, stats, write_dir, db) ==
    CASE level = 0 -> files \cup {<<write_dir, "stats.json", "">>}
      [] level = 1 -> files \cup {<<write_dir, "report/stats.json", "">>}
                            \cup (IF Len(stats.skipped_db_prompts) # 0
                                  THEN {<<write_dir, "report/errors.json", "">>} ELSE {})
      [] level = 2 -> files \cup {<<write_dir, "report/stats_per_db.json", db>>}

\* write_response(...): the json file of the source db is (over)written
write_response(files, response, write_dir, db) ==
    files \cup {<<write_dir, "response.json", db>>}

\* prepare_prompt(...): the prompt is a function of the db ids and the questions
prepare_prompt(questions, source, target) ==
    [db_ids |-> [source |-> source, target |-> target], questions |-> questions]

\* success_response + error_response + corrected_response of a ledger
\* faulty variant of Responses: the responses in error are left out
ResponsesSuccessOnly(stats) ==
    NumVal(stats["success_response"]) + NumVal(stats["corrected_response"])

Responses(stats) ==
    NumVal(stats["success_response"]) + NumVal(stats["error_response"])
        + NumVal(stats["corrected_response"])

(***************************************************************************)
(* core.py run(): the loops.                                               *)
(***************************************************************************)
\* an entry of batch_log: the questions of a prompt batch, how the batch ended
\* and the records of the attempt that was accepted
Batch(questions) == [questions |-> questions, state |-> "Attempting", records |-> <<>>]

Started ==
    /\ SETTINGS \in SettingsChoices
    /\ pc = "pipeline_loop"
    /\ pipeline_num = 0
    /\ source_db_index = 0
    /\ i = 0
    /\ attempt = 0
    /\ overall_stats = Stats([model_origin |-> PyStr("google"), model_name |-> PyStr("model")])
    /\ pipeline_stats = Stats(<<>>)
    /\ current_stats = Stats(<<>>)
    /\ max_fail_counter = 0
    /\ max_tokens_fail_counter = 0
    /\ errors = Unbound
    /\ response_dict = Unbound
    /\ current_db = UNBOUND_DB
    /\ question_data = <<>>
    /\ current_questions = <<>>
    /\ base_questions_prompt = Unbound
    /\ db_response = Unbound
    /\ sink = {}
    /\ slept = FALSE
    /\ ran = RanNothing
    /\ reminders = 0
    /\ exception = ""
    /\ batch_state = "None"
    /\ generation_calls = 0
    /\ batch_responses = 0
    /\ terminal_responses = 0
    /\ source_db_responses = 0
    /\ questions_loaded = 0
    /\ batch_log = <<>>
    /\ repair_result = NotRun

\* no ledger is exercised on its own
StatsIdle == ledger = Stats(<<>>) /\ stats_result = NotRun

Init == Started /\ response_text = <<>> /\ StatsIdle

\* line 390-422: the next pipeline; usable says whether its question folder,
\* question files, schemas and target samples load
StartPipeline(usable) ==
    /\ pc = "pipeline_loop"
    /\ pipeline_num < NumPipelines
    /\ pipeline_num' = pipeline_num + 1
    /\ pipeline_stats' = reset_stats(pipeline_stats)
    /\ IF usable
       THEN pc' = "source_db_loop" /\ source_db_index' = 0
       ELSE pc' = "pipeline_loop" /\ UNCHANGED source_db_index
    /\ UNCHANGED <<SETTINGS, i, attempt, overall_stats, current_stats, max_fail_counter,
                   max_tokens_fail_counter, errors, response_dict, current_db,
                   question_data, current_questions, base_questions_prompt, db_response,
                   sink, slept, ran, reminders, exception, batch_state, generation_calls,
                   batch_responses, terminal_responses, source_db_responses,
                   questions_loaded, batch_log, repair_vars, stats_vars>>

\* lines 621-623: all pipelines done
FinishRun ==
    /\ pc = "pipeline_loop"
    /\ pipeline_num = NumPipelines
    /\ IF current_db = UNBOUND_DB
       THEN pc' = "crashed" /\ exception' = "UnboundLocalError" /\ UNCHANGED sink
       ELSE /\ sink' = write_stats(sink, 0, overall_stats, 0, current_db)
            /\ pc' = "done"
            /\ UNCHANGED exception
    /\ UNCHANGED <<SETTINGS, pipeline_num, source_db_index, i, attempt, overall_stats,
                   pipeline_stats, current_stats, max_fail_counter,
                   max_tokens_fail_counter, errors, response_dict, current_db,
                   question_data, current_questions, base_questions_prompt, db_response,
                   slept, ran, reminders, batch_state, generation_calls,
                   batch_responses, terminal_responses, source_db_responses,
                   questions_loaded, batch_log, repair_vars, stats_vars>>

\* lines 428-451: the next question file; loaded is what prepare_questions returns
StartSourceDb(loaded) ==
    /\ pc = "source_db_loop"
    /\ source_db_index < NumFiles
    /\ source_db_index' = source_db_index + 1
    /\ current_stats' = reset_stats(current_stats)
    /\ IF loaded = None
       THEN UNCHANGED <<pc, current_db, question_data, db_response, i, questions_loaded, batch_log>>
       ELSE /\ current_db' = DbIds[source_db_index']
            /\ IF Len(SETTINGS.source_db_ids) # 0
                  /\ current_db' \notin RangeOf(SETTINGS.source_db_ids)
               THEN UNCHANGED <<pc, question_data, db_response, i, questions_loaded, batch_log>>
               ELSE /\ questions_loaded + Len(loaded.val) <= MaxTotalQuestions
                    /\ questions_loaded' = questions_loaded + Len(loaded.val)
                    /\ batch_log' = <<>>
                    /\ question_data' = loaded.val
                    /\ db_response' = [response |-> None, json |-> <<>>]
                    /\ i' = 0
                    /\ pc' = "prompt_loop"
    /\ UNCHANGED <<SETTINGS, pipeline_num, attempt, overall_stats, pipeline_stats,
                   max_fail_counter, max_tokens_fail_counter, errors, response_dict,
                   current_questions, base_questions_prompt, sink, slept, ran, reminders,
                   exception, batch_state, generation_calls, batch_responses,
                   terminal_responses, source_db_responses, repair_vars, stats_vars>>

\* lines 613-619: the pipeline's question files are done
FinishPipeline ==
    /\ pc = "source_db_loop"
    /\ source_db_index = NumFiles
    /\ IF current_db = UNBOUND_DB
       THEN pc' = "crashed" /\ exception' = "UnboundLocalError"
            /\ UNCHANGED <<sink, overall_stats>>
       ELSE /\ sink' = write_stats(sink, 1, pipeline_stats, pipeline_num, current_db)
            /\ IF add_stats_raises(overall_stats, get_stats(pipeline_stats))
               THEN pc' = "crashed" /\ exception' = "TypeError" /\ UNCHANGED overall_stats
               ELSE /\ overall_stats' = add_stats(overall_stats, get_stats(pipeline_stats))
                    /\ pc' = "pipeline_loop"
                    /\ UNCHANGED exception
    /\ UNCHANGED <<SETTINGS, pipeline_num, source_db_index, i, attempt,
                   pipeline_stats, current_stats, max_fail_counter,
                   max_tokens_fail_counter, errors, response_dict, current_db,
                   question_data, current_questions, base_questions_prompt, db_response,
                   slept, ran, reminders, batch_state, generation_calls,
                   batch_responses, terminal_responses, source_db_responses,
                   questions_loaded, batch_log, repair_vars, stats_vars>>

\* lines 455-470: the next prompt batch
StartPrompt ==
    /\ pc = "prompt_loop"
    /\ i < Len(question_data)
    /\ current_questions' = PySlice(question_data, i, i + SETTINGS.max_question_length_per_prompt)
    /\ base_questions_prompt' = prepare_prompt(current_questions', current_db,
                                               SETTINGS.target_db_id)
    /\ response_dict' = None
    /\ attempt' = 0
    /\ pc' = "attempt_loop"
    /\ batch_state' = "Attempting"
    /\ generation_calls' = 0
    /\ batch_responses' = 0
    /\ batch_log' = Append(batch_log, Batch(current_questions'))
    /\ UNCHANGED <<SETTINGS, pipeline_num, source_db_index, i, overall_stats, pipeline_stats,
                   current_stats, max_fail_counter, max_tokens_fail_counter, errors,
                   current_db, question_data, db_response, sink, slept, ran, reminders,
                   exception, terminal_responses, source_db_responses, questions_loaded,
                   repair_vars, stats_vars>>

\* lines 603-611: the source db's prompt batches are done
FinishSourceDb ==
    /\ pc = "prompt_loop"
    /\ i >= Len(question_data)
    /\ LET stats1 == add_stats(current_stats,
                         [response  |-> PyInt(Responses(get_stats(current_stats))),
                          real_time |-> PyInt(1)])
       IN  /\ current_stats' = stats1
           /\ pipeline_stats' = add_stats(pipeline_stats, get_stats(stats1))
           /\ sink' = write_stats(sink, 2, stats1, pipeline_num, current_db)
           /\ source_db_responses' = source_db_responses + Responses(get_stats(stats1))
    /\ pc' = "source_db_loop"
    /\ UNCHANGED <<SETTINGS, pipeline_num, source_db_index, i, attempt, overall_stats,
                   max_fail_counter, max_tokens_fail_counter, errors, response_dict,
                   current_db, question_data, current_questions, base_questions_prompt,
                   db_response, slept, ran, reminders, exception, batch_state,
                   generation_calls, batch_responses, terminal_responses, questions_loaded,
                   batch_log, repair_vars, stats_vars>>

\* lines 471-564: one attempt; gen is what model.generate does
\* faulty variant of AfterAttempt: an accepted attempt does not leave the loop
AfterAttemptNoBreak(how, made) ==
    CASE how = "exit" -> "exited"
      [] how = "raise" -> "crashed"
      [] how \in {"break", "next"} ->
            IF InRange(made, SETTINGS.max_retry_per_prompt)
            THEN "attempt_loop" ELSE "after_attempts"

\* where run() is after an attempt that ended as `how`, the batch having made
\* `made` attempts: the break of line 541, the for of line 471, the exit of
\* max_fail_exit and an exception that leaves run()
AfterAttempt(how, made) ==
    CASE how = "exit" -> "exited"
      [] how = "raise" -> "crashed"
      [] how = "break" -> "after_attempts"
      [] how = "next" ->
            IF InRange(made, SETTINGS.max_retry_per_prompt)
            THEN "attempt_loop" ELSE "after_attempts"

Attempt(gen) ==
    /\ pc = "attempt_loop"
    /\ InRange(attempt, SETTINGS.max_retry_per_prompt)
    /\ \E r \in {AttemptBody(gen)} :
           /\ errors' = r.errors
           /\ current_stats' = r.stats
           /\ response_dict' = r.response_dict
           /\ max_fail_counter' = r.max_fail_counter
           /\ max_tokens_fail_counter' = r.max_tokens_fail_counter
           /\ reminders' = r.reminders
           /\ slept' = r.slept
           /\ ran' = r.ran
           /\ exception' = r.exc
           \* lines 488-510: the response is written before it is examined
           /\ sink' = IF gen.raised THEN r.sink
                      ELSE write_response(r.sink, db_response, pipeline_num, current_db)
           /\ db_response' = IF gen.raised THEN db_response
                             ELSE [db_response EXCEPT !.response = PyStr(gen.result.response)]
           /\ pc' = AfterAttempt(r.how, attempt + 1)
           /\ batch_responses' = batch_responses
                  + (Responses(get_stats(r.stats)) - Responses(get_stats(current_stats)))
    /\ attempt' = attempt + 1
    /\ generation_calls' = generation_calls + 1
    /\ UNCHANGED <<SETTINGS, pipeline_num, source_db_index, i, overall_stats, pipeline_stats,
                   current_db, question_data, current_questions, base_questions_prompt,
                   batch_state, terminal_responses, source_db_responses, questions_loaded,
                   batch_log, repair_vars, stats_vars>>

\* faulty variant of NextBatchOffset: the loop steps by one question
NextBatchOffsetByOne(offset) == offset + 1

\* line 454: the step of trange(0, len(question_data), max_question_length_per_prompt)
NextBatchOffset(offset) == offset + SETTINGS.max_question_length_per_prompt

\* lines 566-577: the last attempt left an error, the prompt is skipped
\* faulty variant of SkipRecorded: the record goes to the ledger of the source db
SkipRecordedInSourceDb(pipeline, source_db, prompt, db_id, questions, e) ==
    [pipeline_stats |-> pipeline,
     current_stats  |-> add_skipped_db_prompt(source_db, "", prompt, db_id, questions, e)]

\* lines 570-576: the two ledgers after pipeline_stats.add_skipped_db_prompt(...)
SkipRecorded(pipeline, source_db, prompt, db_id, questions, e) ==
    [pipeline_stats |-> add_skipped_db_prompt(pipeline, "", prompt, db_id, questions, e),
     current_stats  |-> source_db]

SkipPrompt ==
    /\ pc = "after_attempts"
    /\ ErrorCount(errors) # 0
    /\ \E r \in {SkipRecorded(pipeline_stats, current_stats, base_questions_prompt,
                               current_db, current_questions, errors)} :
          /\ pipeline_stats' = r.pipeline_stats
          /\ current_stats' = r.current_stats
    /\ i' = NextBatchOffset(i)
    /\ pc' = "prompt_loop"
    /\ batch_state' = "Skipped"
    /\ batch_log' = [batch_log EXCEPT ![Len(batch_log)].state = "Skipped"]
    /\ terminal_responses' = terminal_responses + batch_responses
    /\ UNCHANGED <<SETTINGS, pipeline_num, source_db_index, attempt, overall_stats,
                   max_fail_counter, max_tokens_fail_counter, errors,
                   response_dict, current_db, question_data, current_questions,
                   base_questions_prompt, db_response, sink, slept, ran, reminders, exception,
                   generation_calls, batch_responses, source_db_responses, questions_loaded,
                   repair_vars, stats_vars>>

\* faulty variant of Extended: the records take the place of the output so far
Replaced(json, records) == records

\* line 588: db_response["json"].extend(response_dict['json'])
Extended(json, records) == json \o records

\* lines 579-602: the response was accepted, its records join the db's output
AcceptPrompt ==
    /\ pc = "after_attempts"
    /\ ErrorCount(errors) = 0
    /\ db_response' = [response |-> None,
                        json |-> Extended(db_response.json, response_dict.json.val)]
    /\ sink' = write_response(sink, db_response', pipeline_num, current_db)
    /\ i' = NextBatchOffset(i)
    /\ pc' = "prompt_loop"
    /\ batch_state' = "Accepted"
    /\ batch_log' = [batch_log EXCEPT ![Len(batch_log)].state = "Accepted",
                                      ![Len(batch_log)].records = response_dict.json.val]
    /\ terminal_responses' = terminal_responses + batch_responses
    /\ UNCHANGED <<SETTINGS, pipeline_num, source_db_index, attempt, overall_stats,
                   pipeline_stats, current_stats, max_fail_counter,
                   max_tokens_fail_counter, errors, response_dict, current_db,
                   question_data, current_questions, base_questions_prompt, slept, ran,
                   reminders, exception, generation_calls, batch_responses,
                   source_db_responses, questions_loaded,
                   repair_vars, stats_vars>>

\* what prepare_questions can return: None, or a non-empty list of questions
QuestionLoads == {None} \cup {PyList([k \in 1..n |-> k]) : n \in 1..MaxQuestions}

Next ==
    \/ \E usable \in BOOLEAN : StartPipeline(usable)
    \/ FinishRun
    \/ \E loaded \in QuestionLoads : StartSourceDb(loaded)
    \/ FinishPipeline
    \/ StartPrompt
    \/ FinishSourceDb
    \/ \E gen \in GenerateOutcomes : Attempt(gen)
    \/ SkipPrompt
    \/ AcceptPrompt

Spec == Init /\ [][Next]_vars

\* run() is one sequential thread: while a statement is left to execute, and the
\* call of generate() in progress returns or raises, the next one is executed
FairSpec == Spec /\ WF_vars(Next)

(***************************************************************************)
(* One prompt batch on its own: the run stands at the head of the attempt  *)
(* loop of a batch of one question (the state StartPrompt leaves), under   *)
(* every combination of the validation switches, and generate() may hand   *)
(* back every text with every finish reason.                               *)
(***************************************************************************)
AttemptSettings ==
    [max_retry_per_prompt : {MaxRetry},
     max_fail_limit : {MaxFailLimit},
     max_question_length_per_prompt : {MaxQuestionsPerPrompt},
     fields_checking : BOOLEAN,
     db_id_matching : BOOLEAN,
     target_db_id : {TargetDbId, ""},
     source_db_ids : {<<>>}]

AllGenerateOutcomes ==
    {[raised |-> FALSE, result |-> GenerateResult(t, f, IF t = <<>> THEN None ELSE PyInt(1)),
      error |-> ""] : t \in ResponseTexts, f \in FinishReasons}
    \cup {[raised |-> TRUE, result |-> None, error |-> "transport failure"]}

InitAttempt ==
    /\ SETTINGS \in AttemptSettings
    /\ pc = "attempt_loop"
    /\ pipeline_num = 1
    /\ source_db_index = 1
    /\ current_db = DbIds[source_db_index]
    /\ question_data = <<1>>
    /\ questions_loaded = 1
    /\ batch_log = <<Batch(<<1>>)>>
    /\ i = 0
    /\ current_questions = <<1>>
    /\ base_questions_prompt = prepare_prompt(current_questions, current_db,
                                              SETTINGS.target_db_id)
    /\ db_response = [response |-> None, json |-> <<>>]
    /\ response_dict = None
    /\ attempt = 0
    /\ overall_stats = Stats([model_origin |-> PyStr("google"), model_name |-> PyStr("model")])
    /\ pipeline_stats = Stats(<<>>)
    /\ current_stats = Stats(<<>>)
    /\ max_fail_counter = 0
    /\ max_tokens_fail_counter = 0
    /\ errors = Unbound
    /\ sink = {}
    /\ slept = FALSE
    /\ ran = RanNothing
    /\ reminders = 0
    /\ exception = ""
    /\ batch_state = "Attempting"
    /\ generation_calls = 0
    /\ batch_responses = 0
    /\ terminal_responses = 0
    /\ source_db_responses = 0
    /\ response_text = <<>>
    /\ repair_result = NotRun
    /\ StatsIdle

NextAttempt ==
    \/ \E gen \in AllGenerateOutcomes : Attempt(gen)
    \/ SkipPrompt
    \/ AcceptPrompt

SpecAttempt == InitAttempt /\ [][NextAttempt]_vars

(***************************************************************************)
(* The repair engine on its own: validate_json_response and                *)
(* fix_missing_comma applied to every text of at most MaxTextLen tokens    *)
(* and to the texts generate() hands back.                                 *)
(***************************************************************************)
RepairAlphabet == {"[", "]", ",", "\n", " ", "a", BadEscape, "x"}
\* longer texts: a newline at offset 0, a newline after a comma, several
\* commas missing
LongRepairTexts ==
    {<<"\n", "[", "a", "a", c>> : c \in {",", "]"}}
        \cup {<<"[", "a", c, "\n", "a", "a", "]">> : c \in {",", " "}}
        \cup {<<"[", "a", "a", "a", "a", "]">>, <<"[", "a", "\n", "a", "\n", "a", "]">>}
RepairTexts ==
    UNION {[1..n -> RepairAlphabet] : n \in 0..MaxTextLen} \cup ResponseTexts
        \cup LongRepairTexts

InitRepair ==
    /\ Started
    /\ SETTINGS = CHOOSE c \in SettingsChoices : TRUE
    /\ response_text \in RepairTexts
    /\ StatsIdle

Validate ==
    /\ repair_result = NotRun
    /\ repair_result' = [op |-> "validate_json_response",
                         out |-> validate_json_response(DEFAULT_ERRORS, response_text)]
    /\ UNCHANGED <<response_text, run_vars, stats_vars>>

FixMissingComma ==
    /\ repair_result = NotRun
    /\ repair_result' = [op |-> "fix_missing_comma",
                         out |-> fix_missing_comma(response_text),
                         passes |-> RepairPasses(response_text)]
    /\ UNCHANGED <<response_text, run_vars, stats_vars>>

NextRepair == Validate \/ FixMissingComma

SpecRepair == InitRepair /\ [][NextRepair]_vars

(***************************************************************************)
(* core.py: the source dbs of one pipeline with every batch size up to     *)
(* MaxBatchSize and question files of up to MaxTotalQuestions questions,   *)
(* one attempt per prompt batch.                                           *)
(***************************************************************************)
BatchSettings ==
    [max_retry_per_prompt : {1},
     max_fail_limit : {MaxFailLimit},
     max_question_length_per_prompt : 1..MaxBatchSize,
     fields_checking : {TRUE},
     db_id_matching : {TRUE},
     target_db_id : {TargetDbId},
     source_db_ids : {<<>>}]

BatchQuestionLoads ==
    {None} \cup {PyList([k \in 1..n |-> k]) : n \in 1..MaxTotalQuestions}

\* the first pipeline has started (lines 390-422) and its question files are next
InitBatches ==
    /\ SETTINGS \in BatchSettings
    /\ pc = "source_db_loop"
    /\ pipeline_num = 1
    /\ source_db_index = 0
    /\ i = 0
    /\ attempt = 0
    /\ overall_stats = Stats([model_origin |-> PyStr("google"), model_name |-> PyStr("model")])
    /\ pipeline_stats = Stats(<<>>)
    /\ current_stats = Stats(<<>>)
    /\ max_fail_counter = 0
    /\ max_tokens_fail_counter = 0
    /\ errors = Unbound
    /\ response_dict = Unbound
    /\ current_db = UNBOUND_DB
    /\ question_data = <<>>
    /\ current_questions = <<>>
    /\ base_questions_prompt = Unbound
    /\ db_response = Unbound
    /\ sink = {}
    /\ slept = FALSE
    /\ ran = RanNothing
    /\ reminders = 0
    /\ exception = ""
    /\ batch_state = "None"
    /\ generation_calls = 0
    /\ batch_responses = 0
    /\ terminal_responses = 0
    /\ source_db_responses = 0
    /\ questions_loaded = 0
    /\ batch_log = <<>>
    /\ response_text = <<>>
    /\ repair_result = NotRun
    /\ StatsIdle

NextBatches ==
    \/ \E loaded \in BatchQuestionLoads : StartSourceDb(loaded)
    \/ StartPrompt
    \/ \E gen \in GenerateOutcomes : Attempt(gen)
    \/ SkipPrompt
    \/ AcceptPrompt
    \/ FinishSourceDb

SpecBatches == InitBatches /\ [][NextBatches]_vars

(***************************************************************************)
(* stats.py: one Stats ledger under every sequence of its methods.  The     *)
(* ledger is built with any extra_stats, and add_stats is handed any       *)
(* snapshot; numbers stay below MaxStatValue and the two lists below two   *)
(* entries.                                                                *)
(***************************************************************************)
\* the values a caller can put into extra_stats or into a snapshot
StatValues == {PyInt(1), PyBool(TRUE), PyStr("model"), None}
ExtraStats ==
    UNION {[K -> {PyInt(1), PyStr("model"), None}] : K \in SUBSET {"model_name"}}
Snapshots ==
    UNION {[K -> StatValues] : K \in SUBSET {"request", "model_name", "other"}}

\* the keys of a snapshot that add_stats adds without an exception
Addable(self, stats) ==
    {key \in DOMAIN stats \cap DOMAIN self.full_stats :
        IsNumber(stats[key]) /\ IsNumber(self.full_stats[key])}

InitStats ==
    /\ Started
    /\ SETTINGS = CHOOSE c \in SettingsChoices : TRUE
    /\ response_text = <<>>
    /\ ledger \in {Stats(extra_stats) : extra_stats \in ExtraStats}
    /\ stats_result = NotRun

StatsRunning == IF stats_result = NotRun THEN TRUE ELSE ~stats_result.raised

\* ledger.add_stats(stats)
AddStats(stats) ==
    /\ StatsRunning
    /\ \A key \in Addable(ledger, stats) :
           NumVal(ledger.full_stats[key]) + NumVal(stats[key]) <= MaxStatValue
    /\ IF add_stats_raises(ledger, stats)
       THEN \* the keys met before the one that raises have been added; the order
            \* is that of the caller's dict
            \E K \in SUBSET Addable(ledger, stats) :
                ledger' = add_stats(ledger, [key \in K |-> stats[key]])
       ELSE ledger' = add_stats(ledger, stats)
    /\ stats_result' = [op |-> "add_stats", stats |-> stats, before |-> ledger,
                        raised |-> add_stats_raises(ledger, stats)]
    /\ UNCHANGED <<response_text, repair_result, run_vars>>

\* ledger.reset_stats()
ResetStats ==
    /\ StatsRunning
    /\ ledger' = reset_stats(ledger)
    /\ stats_result' = [op |-> "reset_stats", before |-> ledger, raised |-> FALSE]
    /\ UNCHANGED <<response_text, repair_result, run_vars>>

\* ledger.add_unexpected_error(error)
AddUnexpectedError ==
    /\ StatsRunning
    /\ Len(ledger.unexpected_errors) < 1
    /\ NumVal(ledger.full_stats["unexpected_error"]) < MaxStatValue
    /\ ledger' = add_unexpected_error(ledger, "transport failure")
    /\ stats_result' = [op |-> "add_unexpected_error", before |-> ledger, raised |-> FALSE]
    /\ UNCHANGED <<response_text, repair_result, run_vars>>

\* ledger.add_skipped_db_prompt(...)
AddSkippedDbPrompt ==
    /\ StatsRunning
    /\ Len(ledger.skipped_db_prompts) < 1
    /\ ledger' = add_skipped_db_prompt(ledger, "", prepare_prompt(<<1>>, "db1", TargetDbId),
                                       "db1", <<1>>,
                                       [DEFAULT_ERRORS EXCEPT !["json_decode"] = TRUE])
    /\ stats_result' = [op |-> "add_skipped_db_prompt", before |-> ledger, raised |-> FALSE]
    /\ UNCHANGED <<response_text, repair_result, run_vars>>

NextStats ==
    \/ \E stats \in Snapshots : AddStats(stats)
    \/ ResetStats
    \/ AddUnexpectedError
    \/ AddSkippedDbPrompt

SpecStats == InitStats /\ [][NextStats]_vars

(***************************************************************************)
(* Properties.                                                             *)
(***************************************************************************)
\* the step is one pass of the attempt loop
AttemptStep == generation_calls' = generation_calls + 1
\* the step ends a prompt batch
SkipStep == batch_state = "Attempting" /\ batch_state' = "Skipped"
AcceptStep == batch_state = "Attempting" /\ batch_state' = "Accepted"
Counter(stats, key) == NumVal(stats.full_stats[key])

\* C1: a prompt batch never makes more than max_retry_per_prompt generation
\* calls; when the attempt loop is left with an error standing, and when the
\* batch has been skipped, it has made exactly max_retry_per_prompt calls.
C1_RetryBound ==
    LET N == SETTINGS.max_retry_per_prompt
    IN  /\ generation_calls <= N
        /\ pc = "attempt_loop" => generation_calls < N
        /\ (pc = "after_attempts" /\ ErrorCount(errors) # 0) => generation_calls = N
        /\ batch_state = "Skipped" => generation_calls = N

C1_Witness ==
    /\ batch_state = "Skipped"
    /\ SETTINGS.max_retry_per_prompt > 1
    /\ generation_calls = SETTINGS.max_retry_per_prompt
    /\ max_fail_counter = 0

\* C2: the count of unexpected failures never passes max_fail_limit; once it
\* reaches it the run has exited, and an exited run takes no further step.
C2_GlobalAbort ==
    /\ max_fail_counter <= SETTINGS.max_fail_limit
    /\ max_fail_counter >= SETTINGS.max_fail_limit => pc = "exited"
    /\ pc = "exited" => ~ENABLED Next

C2_Witness ==
    /\ pc = "exited"
    /\ SETTINGS.max_fail_limit > 1
    /\ max_fail_counter = SETTINGS.max_fail_limit
    /\ attempt = 1
    /\ pipeline_num > 1

\* C4: when the run has completed, success_response + error_response +
\* corrected_response of the run ledger equals the sum of the three over the
\* source-db ledgers as they were merged, and the sum over the prompt batches
\* that were accepted or skipped.
C4_LedgerSum ==
    pc = "done" =>
        /\ Responses(get_stats(overall_stats)) = source_db_responses
        /\ source_db_responses = terminal_responses

C4_Witness ==
    /\ pc = "done"
    /\ pipeline_num > 1
    /\ Counter(overall_stats, "success_response") > 1
    /\ Counter(overall_stats, "error_response") > 1
    /\ Len(pipeline_stats.skipped_db_prompts) > 0

\* C10: when the run has exited on max_fail_limit, the stats files of the
\* source db in progress, of the pipeline and of the run have been written.
C10_FlushedOnAbort ==
    pc = "exited" =>
        /\ <<pipeline_num, "report/stats_per_db.json", current_db>> \in sink
        /\ <<pipeline_num, "report/stats.json", "">> \in sink
        /\ <<0, "stats.json", "">> \in sink

\* the text with a comma put in after its k-th token
InsertComma(t, k) == SubSeq(t, 1, k) \o <<",">> \o SubSeq(t, k + 1, Len(t))
\* the texts that parse and differ from t by one comma between two tokens
Corrections(t) == {c \in {InsertComma(t, k) : k \in 1..(Len(t) - 1)} : JsonLoads(c).ok}
MissesOneComma(t) == ~JsonLoads(t).ok /\ Corrections(t) # {}

\* C3: validate_json_response on a text that misses exactly one separating
\* comma raises nothing, sets no error flag and returns the value of the
\* corrected text together with wasFixed = true.
C3_SingleCommaRepaired ==
    (repair_result.op = "validate_json_response" /\ MissesOneComma(response_text)) =>
        /\ ~repair_result.out.raised
        /\ repair_result.out.fixed = PyBool(TRUE)
        /\ repair_result.out.json \in {JsonLoads(c).val : c \in Corrections(response_text)}
        /\ repair_result.out.errors = DEFAULT_ERRORS

\* an attempt has run and generate() handed back a result
Answered == errors # Unbound /\ ~errors["unexpected"] /\ response_dict \notin {None, Unbound}
\* the flags of an ErrorSet that are set
Flags(e) == {k \in DOMAIN e : e[k]}
\* the attempt's text went through json parsing and came back
Parsed == "json" \in DOMAIN response_dict

\* C5: after an attempt whose result is a non-empty text with finish reason
\* MAX_TOKENS, max_token is set, the text was not parsed and the max-token
\* reminder counter has been incremented.
C5_TruncationFlagged ==
    (Answered /\ response_dict.response # <<>> /\ response_dict.finish_reason = "MAX_TOKENS") =>
        /\ errors["max_token"]
        /\ ~Parsed
        /\ max_tokens_fail_counter > 0

\* C6: after an attempt, the classifier flags are those of the chain
\* empty_output > max_token > recitation: exactly the first condition that
\* holds is set and the text is not parsed; when none holds no classifier flag
\* is set and the text is handed to json parsing.
C6_PrecedenceChain ==
    Answered =>
        LET special == Flags(errors) \cap {"empty_output", "max_token", "recitation"}
        IN  IF response_dict.response = <<>>
            THEN Flags(errors) = {"empty_output"} /\ ~Parsed
            ELSE IF response_dict.finish_reason = "MAX_TOKENS"
            THEN Flags(errors) = {"max_token"} /\ ~Parsed
            ELSE IF response_dict.finish_reason = "RECITATION"
            THEN Flags(errors) = {"recitation"} /\ ~Parsed
            ELSE special = {} /\ (Parsed \/ pc = "crashed")

\* C7: an attempt that leaves an error in the ErrorSet adds 1 to
\* error_response when the error is not unexpected, and leaves error_response
\* as it was when the error is unexpected.
C7_ErrorResponseCounted ==
    [][(AttemptStep /\ ErrorCount(errors') # 0) =>
            Counter(current_stats', "error_response") =
                Counter(current_stats, "error_response")
                    + (IF errors'["unexpected"] THEN 0 ELSE 1)]_vars

\* C7 as stated: every attempt that leaves an error in the ErrorSet adds 1
\* to error_response.
C7_EveryFailureCounted ==
    [][(AttemptStep /\ ErrorCount(errors') # 0) =>
            Counter(current_stats', "error_response") =
                Counter(current_stats, "error_response") + 1]_vars

C7_Witness ==
    /\ errors # Unbound
    /\ errors["unexpected"]
    /\ pc = "after_attempts"
    /\ generation_calls = 2
    /\ Counter(current_stats, "error_response") = 1
    /\ Counter(current_stats, "unexpected_error") = 1

\* the bracketed part of the response needed the repair engine
Repaired(text) ==
    ~JsonLoads(PySlice(text, PyFind(text, "["), PyRFind(text, "]") + 1)).ok

\* C8: an attempt that leaves the ErrorSet entirely false ends the attempt
\* loop for acceptance and adds 1 to exactly one counter: corrected_response
\* when the text was repaired, success_response otherwise; error_response
\* stays as it was.
C8_AcceptedCounted ==
    [][(AttemptStep /\ ErrorCount(errors') = 0) =>
            /\ pc' = "after_attempts"
            /\ Counter(current_stats', "error_response") = Counter(current_stats, "error_response")
            /\ IF Repaired(response_dict'.response)
               THEN /\ Counter(current_stats', "corrected_response")
                          = Counter(current_stats, "corrected_response") + 1
                    /\ Counter(current_stats', "success_response")
                          = Counter(current_stats, "success_response")
               ELSE /\ Counter(current_stats', "success_response")
                          = Counter(current_stats, "success_response") + 1
                    /\ Counter(current_stats', "corrected_response")
                          = Counter(current_stats, "corrected_response")]_vars

\* C9: skipping a batch appends exactly one record to the skip list, holding
\* the prompt, the source db, the questions of the batch and the ErrorSet of
\* its last attempt; accepting a batch appends none; both go on to the next
\* batch; no other step appends to the skip list.
C9_SkipRecord ==
    [][LET skipped == pipeline_stats.skipped_db_prompts
           record  == [system_prompt |-> "", prompt |-> base_questions_prompt,
                       db_id |-> current_db, questions |-> current_questions,
                       errors |-> errors]
           onward  == /\ pc' = "prompt_loop"
                      /\ i' = i + SETTINGS.max_question_length_per_prompt
       IN  /\ SkipStep => /\ pipeline_stats'.skipped_db_prompts = Append(skipped, record)
                          /\ ErrorCount(errors) # 0
                          /\ onward
           /\ AcceptStep => /\ pipeline_stats'.skipped_db_prompts = skipped
                            /\ onward
           /\ ~SkipStep => Len(pipeline_stats'.skipped_db_prompts) <= Len(skipped)]_vars

C9_Witness ==
    /\ batch_state = "Skipped"
    /\ pc = "prompt_loop"
    /\ i < Len(question_data)
    /\ Len(pipeline_stats.skipped_db_prompts) = 1
    /\ pipeline_stats.skipped_db_prompts[1].questions = current_questions
    /\ pipeline_stats.skipped_db_prompts[1].errors["db_id_matching"]

\* C11: an attempt ends in the backoff sleep exactly when it failed with
\* unexpected and did not end the run, whether or not attempts remain for the
\* batch; no other attempt ends in a sleep.
C11_SleepAfterUnexpected ==
    IF errors = Unbound THEN ~slept
    ELSE slept <=> (errors["unexpected"] /\ pc # "exited")

\* C11 as stated: an attempt ends in the backoff sleep exactly when it failed
\* with unexpected and attempts remain for the batch.
C11_SleepOnlyBeforeRetry ==
    (errors # Unbound /\ pc \in {"attempt_loop", "after_attempts"}) =>
        (slept <=> (errors["unexpected"] /\ pc = "attempt_loop"))

C11_Witness ==
    /\ slept
    /\ pc = "after_attempts"
    /\ attempt = SETTINGS.max_retry_per_prompt
    /\ Counter(current_stats, "error_response") = 1

\* the decoder's verdict on the text of the last repair pass
LastPass(text) == JsonLoads(RepairPasses(text)[Len(RepairPasses(text))])
Validated == repair_result.op = "validate_json_response"

\* C12: for every text that json.loads accepts, validate_json_response returns
\* the value of the direct parse with fixed = False and sets no error flag.
C12_ValidTextUntouched ==
    (Validated /\ JsonLoads(response_text).ok) =>
        /\ ~repair_result.out.raised
        /\ repair_result.out.json = JsonLoads(response_text).val
        /\ repair_result.out.fixed = PyBool(FALSE)
        /\ Flags(repair_result.out.errors) = {}

C12_Witness ==
    /\ Validated
    /\ JsonLoads(response_text).ok
    /\ Len(response_text) >= 3
    /\ repair_result.out.json.kind = "list"

\* C13: a text whose parse fails with an invalid-escape error, at once or on a
\* repair pass that follows comma insertions, yields (None, None) and sets
\* invalid_escape and no other flag.
C13_InvalidEscape ==
    (Validated /\ ~LastPass(response_text).ok /\ LastPass(response_text).msg = MsgEscape) =>
        /\ ~repair_result.out.raised
        /\ repair_result.out.json = None
        /\ repair_result.out.fixed = None
        /\ Flags(repair_result.out.errors) = {"invalid_escape"}

C13_Witness ==
    /\ Validated
    /\ Len(RepairPasses(response_text)) > 1
    /\ ~LastPass(response_text).ok
    /\ LastPass(response_text).msg = MsgEscape
    /\ Flags(repair_result.out.errors) = {"invalid_escape"}

\* C14: a text whose parse fails with an error that is neither the missing-comma
\* nor the invalid-escape error, at once or on a repair pass that follows comma
\* insertions, yields (None, None) and sets json_decode and no other flag.
C14_OtherDecodeError ==
    (Validated /\ ~LastPass(response_text).ok
               /\ LastPass(response_text).msg \notin {MsgComma, MsgEscape}) =>
        /\ ~repair_result.out.raised
        /\ repair_result.out.json = None
        /\ repair_result.out.fixed = None
        /\ Flags(repair_result.out.errors) = {"json_decode"}

C14_Witness ==
    /\ Validated
    /\ Len(RepairPasses(response_text)) > 1
    /\ ~LastPass(response_text).ok
    /\ LastPass(response_text).msg \notin {MsgComma, MsgEscape}
    /\ Flags(repair_result.out.errors) = {"json_decode"}

\* C15: the texts of the successive repair passes start with the original text,
\* and each is the one before it with exactly one comma inserted and nothing
\* else changed.
C15_OnlyCommasInserted ==
    repair_result.op = "fix_missing_comma" =>
        /\ repair_result.passes[1] = response_text
        /\ \A k \in 1..(Len(repair_result.passes) - 1) :
              \E j \in 0..Len(repair_result.passes[k]) :
                  repair_result.passes[k + 1] = InsertComma(repair_result.passes[k], j)

C15_Witness ==
    /\ repair_result.op = "fix_missing_comma"
    /\ Len(repair_result.passes) >= 3
    /\ repair_result.passes[2] # InsertAt(response_text, JsonLoads(response_text).pos)

\* the records of the response the last attempt parsed
Records == response_dict.json.val
HasRequiredFields(rec) ==
    rec.kind = "dict" /\ DOMAIN rec.val = {FieldsToCheck[k] : k \in 1..Len(FieldsToCheck)}
NotAccepted ==
    /\ batch_state # "Accepted"
    /\ Counter(current_stats, "success_response") = 0
    /\ Counter(current_stats, "corrected_response") = 0

WrongIds ==
    {<<n, "source">> : n \in {m \in 1..Len(Records) :
                                Records[m].val["source_db_id"] # PyStr(current_db)}}
    \cup {<<n, "target">> : n \in {m \in 1..Len(Records) :
                                /\ SETTINGS.target_db_id # ""
                                /\ Records[m].val["target_db_id"] # PyStr(SETTINGS.target_db_id)}}

\* C17: check_db_id returns the number of identifiers that are not the expected
\* ones, a record with both identifiers wrong counting twice; db_id_matching is
\* set, and the attempt not accepted, exactly when that number is above zero.
C17_WrongIdentifiersCounted ==
    ran.db_id = "returned" =>
        /\ ran.fails = Cardinality(WrongIds)
        /\ errors["db_id_matching"] <=> ran.fails > 0
        /\ ran.fails > 0 => NotAccepted

\* C17 as stated: check_db_id returns the number of records with an identifier
\* that is not the expected one, each record counted once.
C17_WrongRecordsCounted ==
    ran.db_id = "returned" =>
        /\ ran.fails = Cardinality({w[1] : w \in WrongIds})
        /\ errors["db_id_matching"] <=> ran.fails > 0
        /\ ran.fails > 0 => NotAccepted

C17_Witness ==
    /\ ran.db_id = "returned"
    /\ ran.fails = 2
    /\ Len(Records) = 1
    /\ errors["db_id_matching"]

SpecialFlags == {"empty_output", "max_token", "recitation"}

\* C18: in an attempt validate_json_response is called only after
\* check_special_errors passed without setting a flag, and check_fields and
\* check_db_id only after validate_json_response returned a parsed value; a
\* classifier that failed leaves its own flag as the only one.
C18_ComponentOrder ==
    /\ ran.repair # "none" =>
          ran.classifier = "passed" /\ Flags(errors) \cap SpecialFlags = {}
    /\ (ran.fields # "none" \/ ran.db_id # "none") =>
          ran.repair = "returned" /\ Parsed /\ response_dict.json # None
    /\ ran.classifier = "failed" =>
          Flags(errors) \subseteq SpecialFlags /\ Flags(errors) # {}

C18_Witness ==
    /\ ran.classifier = "passed"
    /\ ran.repair = "returned"
    /\ ran.fields = "failed"
    /\ ran.db_id = "none"
    /\ generation_calls = 2

\* C19: after every attempt at most one of empty_output, max_token and
\* recitation is set.
C19_OneSpecialFlag ==
    errors # Unbound => Cardinality(Flags(errors) \cap SpecialFlags) <= 1

C19_Witness ==
    /\ Answered
    /\ response_dict.response = <<>>
    /\ response_dict.finish_reason = "RECITATION"
    /\ Flags(errors) = {"empty_output"}

\* C20: an attempt that set unexpected called none of check_special_errors,
\* validate_json_response, check_fields and check_db_id, set no other flag and
\* was not accepted, whatever response an earlier attempt left behind.
C20_UnexpectedShortCircuits ==
    (errors # Unbound /\ errors["unexpected"]) =>
        /\ ran = RanNothing
        /\ Flags(errors) = {"unexpected"}
        /\ NotAccepted

C20_Witness ==
    /\ errors # Unbound
    /\ errors["unexpected"]
    /\ response_dict \notin {None, Unbound}
    /\ response_dict.response = TextGood("db2")
    /\ response_dict.finish_reason = ""
    /\ ran = RanNothing

\* C21: after every attempt at most one error kind is set, and check_db_id was
\* not called in an attempt that set fields_mismatch.
C21_OneErrorKind ==
    errors # Unbound =>
        /\ Cardinality(Flags(errors)) <= 1
        /\ errors["fields_mismatch"] => ran.db_id = "none"
        /\ ~(errors["fields_mismatch"] /\ errors["db_id_matching"])

C21_Witness ==
    /\ errors # Unbound
    /\ Flags(errors) = {"fields_mismatch"}
    /\ SETTINGS.db_id_matching
    /\ ran.fields = "failed"
    /\ \E n \in 1..Len(Records) : "source_db_id" \in DOMAIN Records[n].val
                                   /\ Records[n].val["source_db_id"] = PyStr("db1")

\* C22: a prompt batch makes at most max_retry_per_prompt generation calls, and
\* an attempt that left no error is the last call of its batch: the attempt loop
\* is not entered again, and an accepted batch makes no further call.
C22_NoCallAfterAccept ==
    /\ generation_calls <= SETTINGS.max_retry_per_prompt
    /\ (generation_calls > 0 /\ ErrorCount(errors) = 0) => pc # "attempt_loop"
    /\ batch_state = "Accepted" =>
          /\ pc # "attempt_loop"
          /\ ~ENABLED (\E gen \in GenerateOutcomes : Attempt(gen))

C22_Witness ==
    /\ batch_state = "Accepted"
    /\ generation_calls = 1
    /\ SETTINGS.max_retry_per_prompt > 1
    /\ pc = "prompt_loop"

\* C23: the run is ended by max_fail_exit exactly when the count of unexpected
\* failures has reached max_fail_limit; below the limit it is not, and the
\* count never passes the limit.
C23_AbortAtLimit ==
    /\ pc = "exited" <=> max_fail_counter = SETTINGS.max_fail_limit
    /\ max_fail_counter <= SETTINGS.max_fail_limit

\* C23 as stated: a run whose count of unexpected failures has not passed
\* max_fail_limit is not ended by max_fail_exit.
C23_AbortAboveLimit ==
    max_fail_counter <= SETTINGS.max_fail_limit => pc # "exited"

C23_Witness ==
    /\ pc = "exited"
    /\ max_fail_counter = SETTINGS.max_fail_limit
    /\ SETTINGS.max_fail_limit = MaxFailLimit
    /\ errors["unexpected"]
    /\ generation_calls = 1

\* the records of the accepted batches of a log, in batch order
RECURSIVE AcceptedRecords(_)
AcceptedRecords(log) ==
    IF log = <<>> THEN <<>>
    ELSE (IF Head(log).state = "Accepted" THEN Head(log).records ELSE <<>>)
         \o AcceptedRecords(Tail(log))

\* C24: the output of a source db is at every moment, and so when its prompt
\* batches are done, the records of its accepted batches one after the other in
\* batch order; a skipped batch and a failed attempt add nothing to it.
C24_OutputIsAcceptedRecords ==
    db_response # Unbound => db_response.json = AcceptedRecords(batch_log)

C24_Witness ==
    /\ pc = "source_db_loop"
    /\ Len(batch_log) = 2
    /\ batch_log[1].state = "Skipped"
    /\ batch_log[2].state = "Accepted"
    /\ Len(db_response.json) = 1

\* C25: add_stats raises for no ledger and no snapshot; a key is added when the
\* ledger has it and both values are numbers, and every other key of the ledger
\* is left as it was.
C25_MergeNeverRaises ==
    (stats_result # NotRun /\ stats_result.op = "add_stats") =>
        /\ ~stats_result.raised
        /\ DOMAIN ledger.full_stats = DOMAIN stats_result.before.full_stats
        /\ \A key \in DOMAIN ledger.full_stats :
              IF key \in Addable(stats_result.before, stats_result.stats)
              THEN ledger.full_stats[key] =
                       PyInt(NumVal(stats_result.before.full_stats[key])
                             + NumVal(stats_result.stats[key]))
              ELSE ledger.full_stats[key] = stats_result.before.full_stats[key]

\* a ledger as reset_stats leaves it: the counters of its template, no
\* unexpected error and no skipped prompt
IsReset(self) ==
    /\ self.full_stats = self.default
    /\ self.unexpected_errors = <<>>
    /\ self.skipped_db_prompts = <<>>

ResetsInFrame ==
    /\ pipeline_num' # pipeline_num =>
          /\ IsReset(pipeline_stats')
          /\ overall_stats' = overall_stats
    /\ source_db_index' = source_db_index + 1 =>
          /\ IsReset(current_stats')
          /\ pipeline_stats' = pipeline_stats
          /\ overall_stats' = overall_stats
    /\ pipeline_stats'.default = pipeline_stats.default
    /\ current_stats'.default = current_stats.default
    /\ overall_stats'.default = overall_stats.default

\* C26: the step that starts a pipeline leaves pipeline_stats as its template
\* and overall_stats as it was; the step that starts a source db leaves
\* current_stats as its template and pipeline_stats and overall_stats as they
\* were; the template of a ledger never changes.
C26_ResetFrame ==
    [][ResetsInFrame]_vars

\* a ledger built with extra counters comes out of reset_stats with its
\* template, the extra counters included
C26_ResetRestoresExtras ==
    (stats_result # NotRun /\ stats_result.op = "reset_stats") =>
        /\ IsReset(ledger)
        /\ ledger.default = stats_result.before.default
        /\ DOMAIN ledger.full_stats = DOMAIN stats_result.before.full_stats

C26_Witness ==
    /\ pipeline_num = 2
    /\ pc = "source_db_loop"
    /\ source_db_index = 1
    /\ IsReset(pipeline_stats)
    /\ IsReset(current_stats)
    /\ Counter(overall_stats, "request") > 0
    /\ Counter(overall_stats, "unexpected_error") > 0

\* a step of the run: a reset leaves the skip list of its ledger empty, and the
\* two merges (source db into pipeline, pipeline into run) leave the skip list
\* of the ledger merged into as it was
SkipListStep ==
    /\ pipeline_num' # pipeline_num => pipeline_stats'.skipped_db_prompts = <<>>
    /\ source_db_index' = source_db_index + 1 => current_stats'.skipped_db_prompts = <<>>
    /\ source_db_responses' # source_db_responses \/ (pc = "prompt_loop" /\ pc' = "source_db_loop") =>
          pipeline_stats'.skipped_db_prompts = pipeline_stats.skipped_db_prompts
    /\ (pc = "source_db_loop" /\ pc' = "pipeline_loop") =>
          /\ overall_stats'.skipped_db_prompts = overall_stats.skipped_db_prompts
          /\ pipeline_stats'.skipped_db_prompts = pipeline_stats.skipped_db_prompts

\* C27: reset_stats empties the skip list of a ledger, a merge changes the skip
\* list of neither ledger, and the skip list of overall_stats is empty all
\* through the run.
C27_SkipListLocal ==
    [](overall_stats.skipped_db_prompts = <<>>) /\ [][SkipListStep]_vars

C27_Witness ==
    /\ pc = "pipeline_loop"
    /\ pipeline_num = 1
    /\ Len(pipeline_stats.skipped_db_prompts) > 0
    /\ overall_stats.skipped_db_prompts = <<>>
    /\ Counter(overall_stats, "request") > 0

\* an attempt whose generation call raised: what it does to the source-db ledger
\* and to the count of failures of the run
RaisedAttemptStep ==
    (AttemptStep /\ errors'["unexpected"]) =>
        /\ Counter(current_stats', "unexpected_error")
               = Counter(current_stats, "unexpected_error") + 1
        /\ current_stats'.unexpected_errors
               = Append(current_stats.unexpected_errors, "transport failure")
        /\ max_fail_counter' = max_fail_counter + 1
        /\ \A key \in {"input_token", "output_token", "time_taken",
                        "success_response", "corrected_response"} :
               current_stats'.full_stats[key] = current_stats.full_stats[key]

\* C28: an attempt whose generation call raises sets unexpected, adds 1 to
\* unexpected_error of the source-db ledger and the message to its list, adds 1
\* to the failure count of the run, and leaves the token totals, time_taken,
\* success_response and corrected_response alone; the list of the source-db
\* ledger is always as long as its counter says.
C28_RaisedAttemptRecorded ==
    [](Len(current_stats.unexpected_errors) = Counter(current_stats, "unexpected_error"))
    /\ [][RaisedAttemptStep]_vars

C28_Witness ==
    /\ errors # Unbound
    /\ errors["unexpected"]
    /\ generation_calls = 2
    /\ Counter(current_stats, "unexpected_error") = 1
    /\ Counter(current_stats, "input_token") > 0
    /\ max_fail_counter = 1

\* C29: the counter of max_token attempts stays between 0 and
\* MAX_TOKENS_FAIL_REMINDER - 1, an attempt that the service ended on its token
\* limit is counted by it (in the counter, or in a reminder that emptied the
\* counter), and nothing but such attempts moves the counter or emits a reminder.
C29_ReminderCounts ==
    /\ max_tokens_fail_counter \in 0..(MAX_TOKENS_FAIL_REMINDER - 1)
    /\ max_tokens_fail_counter + MAX_TOKENS_FAIL_REMINDER * reminders <= generation_calls
    /\ (Answered /\ response_dict.response # <<>>
                 /\ response_dict.finish_reason = "MAX_TOKENS") =>
          max_tokens_fail_counter + MAX_TOKENS_FAIL_REMINDER * reminders >= 1

\* the questions of the batches of a log, one batch after the other
RECURSIVE BatchQuestions(_)
BatchQuestions(log) ==
    IF log = <<>> THEN <<>> ELSE Head(log).questions \o BatchQuestions(Tail(log))

\* C30: every prompt batch is non-empty and has at most
\* max_question_length_per_prompt questions, every batch but the last one started
\* has exactly that many, the batches started so far are a prefix of the
\* question list in its order, and when the source db is done they are the
\* whole list.
C30_BatchesPartition ==
    LET size == SETTINGS.max_question_length_per_prompt
        all  == BatchQuestions(batch_log)
    IN  /\ \A k \in 1..Len(batch_log) :
              /\ Len(batch_log[k].questions) \in 1..size
              /\ k < Len(batch_log) => Len(batch_log[k].questions) = size
        /\ Len(all) <= Len(question_data)
        /\ all = SubSeq(question_data, 1, Len(all))
        /\ pc = "source_db_loop" => all = question_data

C30_Witness ==
    /\ pc = "source_db_loop"
    /\ SETTINGS.max_question_length_per_prompt = 2
    /\ Len(question_data) = 3
    /\ Len(batch_log) = 2
    /\ batch_log[2].questions = <<3>>

\* the last attempt itself did what sets the flag k
SetByLastAttempt(k) ==
    CASE k = "unexpected" -> ran = RanNothing
      [] k \in SpecialFlags -> ran.classifier = "failed"
      [] k \in {"invalid_escape", "json_decode"} ->
             ran.repair = "returned" /\ response_dict.json = None
      [] k = "fields_mismatch" -> ran.fields = "failed"
      [] k = "db_id_matching" -> ran.db_id = "returned" /\ ran.fails > 0

\* the last prompt batch of the source db in progress has just ended as `state`
LastBatchIs(state) ==
    /\ pc = "prompt_loop"
    /\ batch_log # <<>>
    /\ batch_log[Len(batch_log)].state = state

\* C31: every flag of the ErrorSet was set by the last attempt (an attempt
\* starts from the all-false template), and a batch is skipped, with that
\* ErrorSet in its skip record, exactly when its last attempt left a flag, and
\* accepted when it left none.
C31_FreshErrorSet ==
    /\ \A k \in ErrorKinds : ~DEFAULT_ERRORS[k]
    /\ errors # Unbound => \A k \in Flags(errors) : SetByLastAttempt(k)
    /\ LastBatchIs("Skipped") =>
          /\ ErrorCount(errors) # 0
          /\ pipeline_stats.skipped_db_prompts # <<>>
          /\ pipeline_stats.skipped_db_prompts[Len(pipeline_stats.skipped_db_prompts)].errors
                = errors
    /\ LastBatchIs("Accepted") => ErrorCount(errors) = 0

C31_Witness ==
    /\ pc = "prompt_loop"
    /\ batch_state = "Skipped"
    /\ Len(batch_log) = 2
    /\ batch_log[1].state = "Skipped"
    /\ Len(pipeline_stats.skipped_db_prompts) = 2
    /\ pipeline_stats.skipped_db_prompts[1].errors["unexpected"]
    /\ Flags(pipeline_stats.skipped_db_prompts[2].errors) = {"db_id_matching"}


\* the run has ended without finishing and without the global abort, on a
\* name read before any assignment
EndedUnbound == pc = "crashed" /\ exception = "UnboundLocalError"

\* the pipeline in progress has just been closed
PipelineClosed == pc \in {"pipeline_loop", "done"} /\ pipeline_num > 0

\* C32: a run that is not aborted on max_fail_limit ends with stats.json of
\* the run written, and each pipeline with a skipped prompt batch leaves its
\* report/errors.json; a run whose pipelines or source dbs were all skipped
\* before any prompt batch ends that way too.
C32_SummaryWritten ==
    /\ ~EndedUnbound
    /\ pc = "done" => <<0, "stats.json", "">> \in sink
    /\ (PipelineClosed /\ pipeline_stats.skipped_db_prompts # <<>>)
          => <<pipeline_num, "report/errors.json", "">> \in sink


\* the response counter of a ledger is the sum of its three response counters
ResponseIsSum(stats) ==
    Counter(stats, "response")
        = Counter(stats, "success_response") + Counter(stats, "error_response")
            + Counter(stats, "corrected_response")

\* C33: when a source db has completed, response of its ledger is
\* success_response + error_response + corrected_response, and the equality
\* holds in the pipeline ledger and in the run ledger after every merge.
C33_ResponseIsSum ==
    /\ pc = "source_db_loop" => ResponseIsSum(current_stats)
    /\ pc \in {"source_db_loop", "pipeline_loop", "done"} =>
          ResponseIsSum(pipeline_stats) /\ ResponseIsSum(overall_stats)

C33_Witness ==
    /\ pc = "source_db_loop"
    /\ pipeline_num = 2
    /\ Counter(current_stats, "success_response") > 0
    /\ Counter(current_stats, "error_response") > 0
    /\ Counter(pipeline_stats, "response") > Counter(current_stats, "response")
    /\ Counter(overall_stats, "response") > 0


\* the offset of the nearest newline before offset p of the text t, -1 if none
NearestNewline(t, p) ==
    LET before == {k \in 0..(p - 1) : k < Len(t) /\ t[k + 1] = "\n"}
    IN  IF before = {} THEN -1 ELSE CHOOSE k \in before : \A j \in before : j <= k
\* the character at index n - 1 of t, as Python reads it (index -1 is the last
\* character)
Examined(t, n) == IF n = 0 THEN t[Len(t)] ELSE t[n]
\* where a pass on t, with the error reported at offset p, inserts the comma
InsertionPoint(t, p) ==
    LET n == NearestNewline(t, p)
    IN  IF n # -1 /\ Examined(t, n) # "," THEN n ELSE p

\* C34: each repair pass on a missing-comma error reported at offset p inserts
\* the comma at the nearest newline before p when there is one and the
\* character at index newline - 1 is not a comma, and at p otherwise; for a
\* newline at offset 0 the character at index -1, the last of the text, is the
\* one examined.
C34_InsertionPoint ==
    repair_result.op = "fix_missing_comma" =>
        \A k \in 1..(Len(repair_result.passes) - 1) :
            repair_result.passes[k + 1]
                = InsertComma(repair_result.passes[k],
                              InsertionPoint(repair_result.passes[k],
                                             JsonLoads(repair_result.passes[k]).pos))

C34_Witness ==
    /\ repair_result.op = "fix_missing_comma"
    /\ response_text[1] = "\n"
    /\ response_text[Len(response_text)] = ","
    /\ Len(repair_result.passes) >= 2
    /\ repair_result.passes[2] = InsertComma(response_text, JsonLoads(response_text).pos)


OutcomeKeys == {"success_response", "corrected_response", "error_response",
                "unexpected_error"}
RECURSIVE SumOver(_, _)
SumOver(stats, keys) ==
    IF keys = {} THEN 0
    ELSE LET k == CHOOSE x \in keys : TRUE
         IN  Counter(stats, k) + SumOver(stats, keys \ {k})
\* an attempt that ran to its end (no exception escaped run) adds 1 to request
\* and 1 to exactly one of the four outcome counters
CompletedAttemptStep ==
    (AttemptStep /\ pc' # "crashed") =>
        /\ Counter(current_stats', "request") = Counter(current_stats, "request") + 1
        /\ \E k \in OutcomeKeys :
              /\ Counter(current_stats', k) = Counter(current_stats, k) + 1
              /\ \A j \in OutcomeKeys \ {k} :
                    Counter(current_stats', j) = Counter(current_stats, j)

\* C36: after every completed attempt the ledger of the source db has
\* request = success_response + corrected_response + error_response +
\* unexpected_error; each attempt adds 1 to request and 1 to exactly one of the
\* other four counters.
C36_RequestIsSum ==
    [](pc # "crashed" =>
          Counter(current_stats, "request") = SumOver(current_stats, OutcomeKeys))
    /\ [][CompletedAttemptStep]_vars

C36_Witness ==
    /\ pc = "prompt_loop"
    /\ Counter(current_stats, "request") = 3
    /\ Counter(current_stats, "unexpected_error") = 1
    /\ Counter(current_stats, "error_response") = 1
    /\ Counter(current_stats, "success_response") = 1


\* a step of the run: max_fail_counter moves only by 1, up, on an attempt that
\* raised, and the run is ended by max_fail_exit in the step that brings it to
\* max_fail_limit
FailCounterStep ==
    /\ max_fail_counter' >= max_fail_counter
    /\ IF AttemptStep /\ errors'["unexpected"]
       THEN max_fail_counter' = max_fail_counter + 1
       ELSE max_fail_counter' = max_fail_counter
    /\ pc' = "exited" <=>
          \/ pc = "exited"
          \/ /\ AttemptStep
             /\ errors'["unexpected"]
             /\ max_fail_counter' = SETTINGS.max_fail_limit

\* C37: the count of unexpected failures is never reset or decremented:
\* failures in different prompt batches, source dbs and pipelines, with other
\* attempts between them, add up, and the run is ended on the attempt that
\* brings the count to max_fail_limit, which can be the first of a batch.
C37_FailuresAccumulate ==
    [][FailCounterStep]_vars

C37_Witness ==
    /\ pc = "exited"
    /\ SETTINGS.max_fail_limit = 2
    /\ pipeline_num = 2
    /\ generation_calls = 1
    /\ Counter(overall_stats, "unexpected_error") = 1
    /\ Counter(current_stats, "unexpected_error") = 1
    /\ Counter(current_stats, "error_response") = 1


\* the number of entries of a sequence that satisfy a test
CountIn(seq, Test(_)) == Cardinality({k \in 1..Len(seq) : Test(seq[k])})
IsAcceptedBatch(b) == b.state = "Accepted"
IsSkippedBatch(b) == b.state = "Skipped"
OfCurrentDb(rec) == rec.db_id = current_db

\* between two prompt batches of a source db: every batch so far is Accepted or
\* Skipped, the ledger of the source db counts the accepted ones, and the skip
\* list of the pipeline holds one record of this source db per skipped one
BatchesSettled ==
    pc = "prompt_loop" =>
        /\ \A k \in 1..Len(batch_log) : batch_log[k].state \in {"Accepted", "Skipped"}
        /\ Counter(current_stats, "success_response")
             + Counter(current_stats, "corrected_response")
               = CountIn(batch_log, IsAcceptedBatch)
        /\ CountIn(pipeline_stats.skipped_db_prompts, OfCurrentDb)
               = CountIn(batch_log, IsSkippedBatch)

\* a step of the run: the skip list of the pipeline grows by one record when a
\* batch is skipped and in no other step, and is emptied only when a pipeline
\* starts; an accepted batch leaves no record, a skipped one no output
BatchEndStep ==
    /\ SkipStep =>
          /\ Len(pipeline_stats'.skipped_db_prompts)
                = Len(pipeline_stats.skipped_db_prompts) + 1
          /\ db_response' = db_response
          /\ current_stats' = current_stats
    /\ (~SkipStep /\ pipeline_num' = pipeline_num) =>
          pipeline_stats'.skipped_db_prompts = pipeline_stats.skipped_db_prompts

\* C38: in a run that ends normally every prompt batch whose attempt loop ran
\* ends as exactly one of Accepted and Skipped; the pipeline has as many skip
\* records as skipped batches, and success_response + corrected_response of a
\* source db is the number of its accepted batches.
C38_AcceptedOrSkipped ==
    [](BatchesSettled) /\ [][BatchEndStep]_vars

C38_Witness ==
    /\ pc = "done"
    /\ Len(batch_log) = 2
    /\ batch_log[1].state = "Skipped"
    /\ batch_log[2].state = "Accepted"
    /\ Len(pipeline_stats.skipped_db_prompts) = 2


\* a step of the run: the skip record goes to the ledger of the pipeline, the
\* reset of the source-db ledger leaves the pipeline's skip list as it is, and
\* only the start of a pipeline empties it
SkipRecordStep ==
    /\ SkipStep =>
          /\ pipeline_stats'.skipped_db_prompts
                = Append(pipeline_stats.skipped_db_prompts,
                         [system_prompt |-> "", prompt |-> base_questions_prompt,
                          db_id |-> current_db, questions |-> current_questions,
                          errors |-> errors])
          /\ current_stats'.skipped_db_prompts = current_stats.skipped_db_prompts
    /\ source_db_index' = source_db_index + 1 =>
          /\ IsReset(current_stats')
          /\ pipeline_stats'.skipped_db_prompts = pipeline_stats.skipped_db_prompts
    /\ pipeline_stats'.skipped_db_prompts # pipeline_stats.skipped_db_prompts =>
          \/ SkipStep
          \/ pipeline_num' = pipeline_num + 1 /\ pipeline_stats'.skipped_db_prompts = <<>>

\* C40: a skip record is appended to the ledger of the pipeline, never to the
\* ledger of the source db; it stays in the pipeline's skip list through every
\* reset of the source-db ledger, until the pipeline ledger is reset when the
\* next pipeline starts.
C40_SkipRecordInPipeline ==
    [](current_stats.skipped_db_prompts = <<>>) /\ [][SkipRecordStep]_vars

C40_Witness ==
    /\ pc = "prompt_loop"
    /\ source_db_index = 2
    /\ IsReset(current_stats)
    /\ Len(pipeline_stats.skipped_db_prompts) = 1
    /\ pipeline_stats.skipped_db_prompts[1].db_id = DbIds[1]
    /\ current_db = DbIds[2]


\* the ways the claim lets a run end: line 623 reached, or max_fail_exit
EndedAsStated == pc \in {"done", "exited"}
BatchStarted == batch_state = "Attempting"
BatchEnded == batch_state \in {"Accepted", "Skipped"}

\* C39: with every call of generate() returning or raising, and
\* max_retry_per_prompt finite, the run ends, on its last line or by
\* max_fail_exit, and every prompt batch that was started is accepted or
\* skipped unless max_fail_exit ends the run first.
C39_RunTerminates ==
    /\ <>EndedAsStated
    /\ BatchStarted ~> (BatchEnded \/ pc = "exited")

====
